---- MODULE Spec2Model ----
(***************************************************************************)
(* Model of the log classification engine of LogSight                      *)
(* (src/services/logUtils.ts, parseLogFile).  Text is a sequence of        *)
(* one-character strings, so that every string operation of the source     *)
(* (split, trim, includes, the regular expressions, JSON.parse) is         *)
(* computed character by character as the JavaScript run-time does.        *)
(* exportLogs is modelled for the formats csv and txt.  The two metric     *)
(* extractors that the later App imports from services/logUtils are not    *)
(* defined in that file; they are modelled from sections 4.3 and 4.4 of    *)
(* spec.md.                                                                *)
(*                                                                         *)
(* The App component is modelled in its two builds, src/App.tsx and        *)
(* src/unnamed/part_000: its state hooks are the fields of app, the file   *)
(* reads and AI calls whose callback has not run yet are the sequence      *)
(* requests, and events counts the events of the user.  An answer of the   *)
(* AI service is the tuple of what the service was asked about.  A render  *)
(* that throws unmounts the component (there is no error boundary), after  *)
(* which no handler and no callback acts on it.  The export button of      *)
(* part_000 (format json) is not modelled.                                 *)
(***************************************************************************)
EXTENDS Integers, Sequences, FiniteSets, TLC

(***************************************************************************)
(* Text primitives                                                         *)
(***************************************************************************)

\* A string literal as the sequence of its characters.
Chars(s) == [i \in 1..Len(s) |-> SubSeq(s, i, i)]

UpperSeq == Chars("ABCDEFGHIJKLMNOPQRSTUVWXYZ")
LowerSeq == Chars("abcdefghijklmnopqrstuvwxyz")
UpperChars == {UpperSeq[i] : i \in 1..Len(UpperSeq)}
LowerChars == {LowerSeq[i] : i \in 1..Len(LowerSeq)}
DigitSeq == Chars("0123456789")
DigitChars == {DigitSeq[i] : i \in 1..Len(DigitSeq)}

\* [A-Z], [A-Za-z], \d and \s of the regular expressions.
IsUpper(c) == c \in UpperChars
IsLetter(c) == c \in UpperChars \cup LowerChars
IsDigit(c) == c \in DigitChars
IsSpace(c) == c \in {" ", "\t", "\r", "\n", "\f"}
\* the characters that '.' of a regular expression does not match
IsLineTerminator(c) == c \in {"\n", "\r"}

LowerMap == [c \in UpperChars |-> LowerSeq[CHOOSE i \in 1..Len(UpperSeq) : UpperSeq[i] = c]]

\* String.prototype.toLowerCase
toLowerCase(s) == [i \in 1..Len(s) |-> IF s[i] \in UpperChars THEN LowerMap[s[i]] ELSE s[i]]

\* String.prototype.includes
includes(s, sub) == \E i \in 0..(Len(s) - Len(sub)) : SubSeq(s, i + 1, i + Len(sub)) = sub

\* String.prototype.startsWith / endsWith
startsWith(s, sub) == Len(sub) <= Len(s) /\ SubSeq(s, 1, Len(sub)) = sub
endsWith(s, sub) == Len(sub) <= Len(s) /\ SubSeq(s, Len(s) - Len(sub) + 1, Len(s)) = sub

\* String.prototype.trim
trim(s) ==
    IF \A i \in 1..Len(s) : IsSpace(s[i]) THEN <<>>
    ELSE LET a == CHOOSE i \in 1..Len(s) : ~IsSpace(s[i]) /\ \A j \in 1..(i - 1) : IsSpace(s[j])
             b == CHOOSE i \in 1..Len(s) : ~IsSpace(s[i]) /\ \A j \in (i + 1)..Len(s) : IsSpace(s[j])
         IN SubSeq(s, a, b)

\* content.split(/\r?\n/): the pieces between the separators, in order.
RECURSIVE SplitFrom(_, _)
SplitFrom(s, start) ==
    IF \A j \in start..Len(s) : s[j] # "\n"
    THEN <<SubSeq(s, start, Len(s))>>
    ELSE LET j == CHOOSE k \in start..Len(s) : s[k] = "\n" /\ \A m \in start..(k - 1) : s[m] # "\n"
             e == IF j - 1 >= start /\ s[j - 1] = "\r" THEN j - 2 ELSE j - 1
         IN <<SubSeq(s, start, e)>> \o SplitFrom(s, j + 1)

split(s) == SplitFrom(s, 1)

(***************************************************************************)
(* The regular expressions of parseLogFile                                 *)
(***************************************************************************)

\* /[A-Z]\/.*:/
AndroidTagRegex(s) ==
    \E i \in 1..(Len(s) - 2) :
        /\ IsUpper(s[i])
        /\ s[i + 1] = "/"
        /\ \E j \in (i + 2)..Len(s) :
              /\ s[j] = ":"
              /\ \A k \in (i + 2)..(j - 1) : ~IsLineTerminator(s[k])

\* A fixed-length pattern: "D" stands for \d, "S" for \s, any other
\* element for itself.
FixedMatchAt(s, i, pat) ==
    /\ i + Len(pat) - 1 <= Len(s)
    /\ \A k \in 1..Len(pat) :
          LET c == s[i + k - 1]
          IN CASE pat[k] = "D" -> IsDigit(c)
               [] pat[k] = "S" -> IsSpace(c)
               [] OTHER -> c = pat[k]

\* /\d{2}-\d{2}\s\d{2}:\d{2}:\d{2}\.\d{3}/
AndroidTimePattern == Chars("DD-DDSDD:DD:DD.DDD")

\* The first match of the Android time pattern: <<>> when there is none
\* (String.prototype.match returning null), else <<text>>.
AndroidTimeMatch(s) ==
    LET starts == {i \in 1..Len(s) : FixedMatchAt(s, i, AndroidTimePattern)}
    IN IF starts = {} THEN <<>>
       ELSE LET i == CHOOSE a \in starts : \A b \in starts : a <= b
            IN <<SubSeq(s, i, i + Len(AndroidTimePattern) - 1)>>

\* The end of the maximal run of characters of one class starting at k.
SpaceRunEnd(s, k) ==
    CHOOSE e \in k..(Len(s) + 1) :
        (\A j \in k..(e - 1) : IsSpace(s[j])) /\ (e = Len(s) + 1 \/ ~IsSpace(s[e]))
DigitRunEnd(s, k) ==
    CHOOSE e \in k..(Len(s) + 1) :
        (\A j \in k..(e - 1) : IsDigit(s[j])) /\ (e = Len(s) + 1 \/ ~IsDigit(s[e]))

IosTail == Chars("SDD:DD:DD")

\* /[A-Za-z]{3}\s+\d+\s\d{2}:\d{2}:\d{2}/ tried at position i: 0 when it
\* does not match there, else the index of the last matched character.
\* \s and \d are disjoint, so each of \s+ and \d+ takes its maximal run.
IosMatchEnd(s, i) ==
    IF ~(i + 2 <= Len(s) /\ \A k \in i..(i + 2) : IsLetter(s[k])) THEN 0
    ELSE LET a == SpaceRunEnd(s, i + 3)
         IN IF a = i + 3 THEN 0
            ELSE LET b == DigitRunEnd(s, a)
                 IN IF b = a THEN 0
                    ELSE IF FixedMatchAt(s, b, IosTail) THEN b + Len(IosTail) - 1 ELSE 0

\* The first match of the iOS pattern, as <<>> or <<text>>.
IosTimeMatch(s) ==
    LET starts == {i \in 1..Len(s) : IosMatchEnd(s, i) # 0}
    IN IF starts = {} THEN <<>>
       ELSE LET i == CHOOSE a \in starts : \A b \in starts : a <= b
            IN <<SubSeq(s, i, IosMatchEnd(s, i))>>

\* /^\[(INFO|ERR|WARN)\]/
BracketTagRegex(s) ==
    \/ startsWith(s, Chars("[INFO]"))
    \/ startsWith(s, Chars("[ERR]"))
    \/ startsWith(s, Chars("[WARN]"))

(***************************************************************************)
(* JavaScript values and JSON.parse                                        *)
(***************************************************************************)

\* A JavaScript value: its type and, for a string, a number literal or a
\* nested object/array, its text.
JStr(s) == [t |-> "string", s |-> s]
JNum(s) == [t |-> "number", s |-> s]
JBool(b) == [t |-> "boolean", s |-> IF b THEN Chars("true") ELSE Chars("false")]
JNull == [t |-> "null", s |-> <<>>]
JUndefined == [t |-> "undefined", s |-> <<>>]
JObject(s) == [t |-> "object", s |-> s]

\* The mantissa of a number literal: the text before any exponent.
Mantissa(s) ==
    IF \A i \in 1..Len(s) : s[i] \notin {"e", "E"} THEN s
    ELSE SubSeq(s, 1, (CHOOSE i \in 1..Len(s) : s[i] \in {"e", "E"} /\ \A j \in 1..(i - 1) : s[j] \notin {"e", "E"}) - 1)

\* ToBoolean, as used by ||, ! and if (...)
Truthy(v) ==
    CASE v.t = "string" -> v.s # <<>>
      [] v.t = "number" -> \E i \in 1..Len(Mantissa(v.s)) : Mantissa(v.s)[i] \in DigitChars \ {"0"}
      [] v.t = "boolean" -> v.s = Chars("true")
      [] v.t = "object" -> TRUE
      [] OTHER -> FALSE

\* a || b
JsOr(a, b) == IF Truthy(a) THEN a ELSE b

IsJsonSpace(c) == c \in {" ", "\t", "\n", "\r"}
SkipWs(s, i) ==
    CHOOSE e \in i..(Len(s) + 1) :
        (\A j \in i..(e - 1) : IsJsonSpace(s[j])) /\ (e = Len(s) + 1 \/ ~IsJsonSpace(s[e]))

At(s, i) == IF i >= 1 /\ i <= Len(s) THEN s[i] ELSE ""
ParseFail == [ok |-> FALSE, next |-> 0, val |-> JUndefined]

\* The body of a JSON string from position j (after the opening quote).
\* Escapes \" \\ \/ \n \r \t are decoded; \b, \f and \uXXXX are outside the
\* alphabet of the modelled documents.
RECURSIVE ParseStringBody(_, _, _)
ParseStringBody(s, j, acc) ==
    IF j > Len(s) THEN ParseFail
    ELSE IF s[j] = "\"" THEN [ok |-> TRUE, next |-> j + 1, val |-> JStr(acc)]
    ELSE IF s[j] = "\\" THEN
        LET e == At(s, j + 1)
        IN IF e \in {"\"", "\\", "/"} THEN ParseStringBody(s, j + 2, Append(acc, e))
           ELSE IF e = "n" THEN ParseStringBody(s, j + 2, Append(acc, "\n"))
           ELSE IF e = "r" THEN ParseStringBody(s, j + 2, Append(acc, "\r"))
           ELSE IF e = "t" THEN ParseStringBody(s, j + 2, Append(acc, "\t"))
           ELSE ParseFail
    ELSE IF s[j] \in {"\t", "\n", "\r", "\f"} THEN ParseFail
    ELSE ParseStringBody(s, j + 1, Append(acc, s[j]))

ParseString(s, i) == IF At(s, i) = "\"" THEN ParseStringBody(s, i + 1, <<>>) ELSE ParseFail

\* -?(0|[1-9]\d*)(\.\d+)?([eE][+-]?\d+)? from position i.  Each part is
\* an operator of the position the part before it ended at; 0 stands for
\* "no match".
NumberIntEnd(s, a) ==
    IF At(s, a) = "0" THEN a + 1 ELSE IF IsDigit(At(s, a)) THEN DigitRunEnd(s, a) ELSE 0
DigitsEndOrFail(s, d, e) == IF e > d THEN e ELSE 0
NumberFracEnd(s, b) ==
    IF b # 0 /\ At(s, b) = "." THEN DigitsEndOrFail(s, b + 1, DigitRunEnd(s, b + 1)) ELSE b
NumberExpDigits(s, d) == DigitsEndOrFail(s, d, DigitRunEnd(s, d))
NumberExpEnd(s, c) ==
    IF c # 0 /\ At(s, c) \in {"e", "E"}
    THEN NumberExpDigits(s, IF At(s, c + 1) \in {"+", "-"} THEN c + 2 ELSE c + 1)
    ELSE c
NumberResult(s, i, x) ==
    IF x = 0 THEN ParseFail ELSE [ok |-> TRUE, next |-> x, val |-> JNum(SubSeq(s, i, x - 1))]
ParseNumber(s, i) ==
    NumberResult(s, i, NumberExpEnd(s, NumberFracEnd(s, NumberIntEnd(s, IF At(s, i) = "-" THEN i + 1 ELSE i))))

ParseLiteral(s, i, word, v) ==
    IF i + Len(word) - 1 <= Len(s) /\ SubSeq(s, i, i + Len(word) - 1) = word
    THEN [ok |-> TRUE, next |-> i + Len(word), val |-> v]
    ELSE ParseFail

EmptyProps == [k \in {} |-> JUndefined]

RECURSIVE ParseValue(_, _), ParseMembers(_, _, _), ParseElements(_, _)
RECURSIVE MembersAfterKey(_, _, _), MembersAfterColon(_, _, _, _), MembersAfterValue(_, _, _, _)
RECURSIVE MembersNext(_, _, _), ElementsAfterValue(_, _), ElementsNext(_, _)

\* An object from its '{' at i: val is the map from keys to values, a
\* repeated key keeping its last value.
ObjectBody(s, j) ==
    IF At(s, j) = "}" THEN [ok |-> TRUE, next |-> j + 1, val |-> EmptyProps]
    ELSE ParseMembers(s, j, EmptyProps)
ParseObject(s, i) == IF At(s, i) # "{" THEN ParseFail ELSE ObjectBody(s, SkipWs(s, i + 1))

\* "key" : value ( , "key" : value )* }   -- one operator per token, each
\* taking what the tokens before it produced: the key k, the position c
\* of the colon, the value v, the position e after the value.
ParseMembers(s, j, props) == MembersAfterKey(s, ParseString(s, j), props)
MembersAfterKey(s, k, props) ==
    IF ~k.ok THEN ParseFail ELSE MembersAfterColon(s, k, SkipWs(s, k.next), props)
MembersAfterColon(s, k, c, props) ==
    IF At(s, c) # ":" THEN ParseFail ELSE MembersAfterValue(s, k, ParseValue(s, SkipWs(s, c + 1)), props)
MembersAfterValue(s, k, v, props) ==
    IF ~v.ok THEN ParseFail ELSE MembersNext(s, SkipWs(s, v.next), (k.val.s :> v.val) @@ props)
MembersNext(s, e, np) ==
    IF At(s, e) = "}" THEN [ok |-> TRUE, next |-> e + 1, val |-> np]
    ELSE IF At(s, e) = "," THEN ParseMembers(s, SkipWs(s, e + 1), np)
    ELSE ParseFail

\* value ( , value )* ]   -- next is the position after the ']'
ParseElements(s, j) == ElementsAfterValue(s, ParseValue(s, j))
ElementsAfterValue(s, v) == IF ~v.ok THEN ParseFail ELSE ElementsNext(s, SkipWs(s, v.next))
ElementsNext(s, e) ==
    IF At(s, e) = "]" THEN [ok |-> TRUE, next |-> e + 1, val |-> JUndefined]
    ELSE IF At(s, e) = "," THEN ParseElements(s, SkipWs(s, e + 1))
    ELSE ParseFail

ArrayBody(s, j) ==
    IF At(s, j) = "]" THEN [ok |-> TRUE, next |-> j + 1, val |-> JUndefined] ELSE ParseElements(s, j)
ParseArray(s, i) == ArrayBody(s, SkipWs(s, i + 1))

\* A nested object or array parsed to r is kept as an object value
\* carrying its text.
Nested(s, i, r) ==
    IF r.ok THEN [ok |-> TRUE, next |-> r.next, val |-> JObject(SubSeq(s, i, r.next - 1))] ELSE ParseFail

\* Any JSON value starting at i.
ValueAt(s, i, c) ==
    CASE c = "\"" -> ParseString(s, i)
      [] c = "{" -> Nested(s, i, ParseObject(s, i))
      [] c = "[" -> Nested(s, i, ParseArray(s, i))
      [] c = "t" -> ParseLiteral(s, i, Chars("true"), JBool(TRUE))
      [] c = "f" -> ParseLiteral(s, i, Chars("false"), JBool(FALSE))
      [] c = "n" -> ParseLiteral(s, i, Chars("null"), JNull)
      [] c = "-" \/ IsDigit(c) -> ParseNumber(s, i)
      [] OTHER -> ParseFail
ParseValue(s, i) == ValueAt(s, i, At(s, i))

\* JSON.parse(line) for a text whose first non-blank character is '{' (the
\* only call, logUtils.ts:67, is guarded by line.startsWith('{')):
\* ok = FALSE when it throws SyntaxError, else props is the parsed object.
TopLevel(s, r) ==
    IF r.ok /\ SkipWs(s, r.next) = Len(s) + 1
    THEN [ok |-> TRUE, props |-> r.val]
    ELSE [ok |-> FALSE, props |-> EmptyProps]
JSONparse(s) == TopLevel(s, ParseObject(s, SkipWs(s, 1)))

\* json.<name>: the property, or undefined
GetProp(props, name) == IF name \in DOMAIN props THEN props[name] ELSE JUndefined

(***************************************************************************)
(* parseLogFile: the per-line cascade                                      *)
(***************************************************************************)

\* src/types.ts
LogLevel == [INFO |-> "INFO", WARNING |-> "WARNING", ERROR |-> "ERROR", DEBUG |-> "DEBUG", UNKNOWN |-> "UNKNOWN"]
LogSource == [IOS |-> "iOS", ANDROID |-> "Android", WECHAT |-> "WeChat", UNKNOWN |-> "Unknown"]

\* DetectSource testing the Android keywords before the iOS ones.
DetectSourceAndroidFirst(name) ==
    IF includes(toLowerCase(name), Chars("android")) \/ includes(name, Chars("logcat")) THEN LogSource.ANDROID
    ELSE IF includes(toLowerCase(name), Chars("ios")) \/ includes(name, Chars(".syslog")) THEN LogSource.IOS
    ELSE IF includes(toLowerCase(name), Chars("wechat")) \/ includes(name, Chars("miniprogram")) THEN LogSource.WECHAT
    ELSE LogSource.UNKNOWN

\* The file-level prior computed from the file name.
DetectSource(name) ==
    IF includes(toLowerCase(name), Chars("ios")) \/ includes(name, Chars(".syslog")) THEN LogSource.IOS
    ELSE IF includes(toLowerCase(name), Chars("android")) \/ includes(name, Chars("logcat")) THEN LogSource.ANDROID
    ELSE IF includes(toLowerCase(name), Chars("wechat")) \/ includes(name, Chars("miniprogram")) THEN LogSource.WECHAT
    ELSE LogSource.UNKNOWN

\* IsBlank without the trim: only the empty line is skipped.
IsBlankEmptyOnly(ln) == ln = <<>>

\* if (!line.trim()) return;
IsBlank(ln) == trim(ln) = <<>>

\* InitLocals forgetting the file-level prior.
InitLocalsUnknownSource(ln, detected) ==
    [level |-> LogLevel.UNKNOWN, timestamp |-> JStr(<<>>), message |-> JStr(ln), source |-> LogSource.UNKNOWN]

\* The callback's locals at the top of one iteration.
InitLocals(ln, detected) ==
    [level |-> LogLevel.UNKNOWN, timestamp |-> JStr(<<>>), message |-> JStr(ln), source |-> detected]

\* AndroidLevel testing W/ before E/.
AndroidLevelWarningFirst(ln) ==
    IF includes(ln, Chars(" W/")) \/ startsWith(ln, Chars("W/")) THEN LogLevel.WARNING
    ELSE IF includes(ln, Chars(" E/")) \/ startsWith(ln, Chars("E/")) THEN LogLevel.ERROR
    ELSE IF includes(ln, Chars(" D/")) \/ startsWith(ln, Chars("D/")) THEN LogLevel.DEBUG
    ELSE LogLevel.INFO

\* The Android structural pattern of a line.
AndroidPattern(ln) == AndroidTagRegex(ln) \/ includes(ln, Chars("AndroidRuntime"))

\* The level an Android line gets from its tag letter.
AndroidLevel(ln) ==
    IF includes(ln, Chars(" E/")) \/ startsWith(ln, Chars("E/")) THEN LogLevel.ERROR
    ELSE IF includes(ln, Chars(" W/")) \/ startsWith(ln, Chars("W/")) THEN LogLevel.WARNING
    ELSE IF includes(ln, Chars(" D/")) \/ startsWith(ln, Chars("D/")) THEN LogLevel.DEBUG
    ELSE LogLevel.INFO

\* AndroidStep evaluated under every prior.
AndroidStepUngated(ln, st) ==
    IF AndroidPattern(ln)
    THEN [st EXCEPT !.source = LogSource.ANDROID,
                    !.level = AndroidLevel(ln),
                    !.timestamp = IF AndroidTimeMatch(ln) # <<>> THEN JStr(AndroidTimeMatch(ln)[1]) ELSE @]
    ELSE st

\* Android logcat block.
AndroidStep(ln, st) ==
    IF st.source \in {LogSource.ANDROID, LogSource.UNKNOWN} /\ AndroidPattern(ln)
    THEN [st EXCEPT !.source = LogSource.ANDROID,
                    !.level = AndroidLevel(ln),
                    !.timestamp = IF AndroidTimeMatch(ln) # <<>> THEN JStr(AndroidTimeMatch(ln)[1]) ELSE @]
    ELSE st

\* IosLevel testing the bare severity words.
IosLevelBareWords(ln) ==
    LET low == toLowerCase(ln)
    IN IF includes(low, Chars("error")) THEN LogLevel.ERROR
       ELSE IF includes(low, Chars("warning")) THEN LogLevel.WARNING
       ELSE IF includes(low, Chars("<debug>")) THEN LogLevel.DEBUG
       ELSE LogLevel.INFO

\* The level an iOS line gets from its severity marker.
IosLevel(ln) ==
    LET low == toLowerCase(ln)
    IN IF includes(low, Chars("<error>")) \/ includes(low, Chars(" error:")) THEN LogLevel.ERROR
       ELSE IF includes(low, Chars("<warning>")) \/ includes(low, Chars(" warning:")) THEN LogLevel.WARNING
       ELSE IF includes(low, Chars("<debug>")) THEN LogLevel.DEBUG
       ELSE LogLevel.INFO

\* The iOS structural pattern of a line.
IosPattern(ln) == IosTimeMatch(ln) # <<>>

\* IosStep evaluated whatever the current source and timestamp are.
IosStepUngated(ln, st) ==
    IF IosPattern(ln)
    THEN [st EXCEPT !.source = LogSource.IOS,
                    !.timestamp = JStr(IosTimeMatch(ln)[1]),
                    !.level = IosLevel(ln)]
    ELSE st

\* iOS syslog block.
IosStep(ln, st) ==
    IF (st.source = LogSource.IOS \/ (st.source = LogSource.UNKNOWN /\ ~Truthy(st.timestamp))) /\ IosPattern(ln)
    THEN [st EXCEPT !.source = LogSource.IOS,
                    !.timestamp = JStr(IosTimeMatch(ln)[1]),
                    !.level = IosLevel(ln)]
    ELSE st

\* The brace-delimited shape of the WeChat block.
BracePattern(ln) == startsWith(ln, Chars("{")) /\ endsWith(ln, Chars("}"))

\* JsonLevel recognising 'warning' in place of 'warn'.
JsonLevelWarningWord(l) ==
    IF l = Chars("error") THEN LogLevel.ERROR
    ELSE IF l = Chars("warning") THEN LogLevel.WARNING
    ELSE LogLevel.INFO

\* The level a text `level` field stands for.
JsonLevel(l) ==
    IF l = Chars("error") THEN LogLevel.ERROR
    ELSE IF l = Chars("warn") THEN LogLevel.WARNING
    ELSE LogLevel.INFO

\* Line 68: message = json.message || json.msg || line
JsonMessage(ln, props) ==
    JsOr(JsOr(GetProp(props, Chars("message")), GetProp(props, Chars("msg"))), JStr(ln))

\* Line 75: timestamp = json.time || json.timestamp || ''
JsonTimestamp(props) ==
    JsOr(JsOr(GetProp(props, Chars("time")), GetProp(props, Chars("timestamp"))), JStr(<<>>))

\* Lines 68-75 for a parsed object with properties props and level field
\* lvl.  json.level.toLowerCase() throws when lvl is truthy and not a
\* string; the catch block is empty, so the message assigned before the
\* throw stays and the timestamp is not assigned.
JsonAssign(ln, st, props, lvl) ==
    IF Truthy(lvl) /\ lvl.t # "string"
    THEN [st EXCEPT !.message = JsonMessage(ln, props)]
    ELSE [st EXCEPT !.message = JsonMessage(ln, props),
                    !.level = IF Truthy(lvl) THEN JsonLevel(toLowerCase(lvl.s)) ELSE @,
                    !.timestamp = JsonTimestamp(props)]

\* The try block of the JSON branch for the outcome json of JSON.parse:
\* when JSON.parse throws nothing is assigned.
JsonTry(ln, st, json) ==
    IF ~json.ok THEN st ELSE JsonAssign(ln, st, json.props, GetProp(json.props, Chars("level")))

JsonBranch(ln, st) == JsonTry(ln, st, JSONparse(ln))

\* The level of a line that starts with a bracketed tag.
BracketLevel(ln) ==
    IF includes(ln, Chars("[ERR")) THEN LogLevel.ERROR
    ELSE IF includes(ln, Chars("[WARN")) THEN LogLevel.WARNING
    ELSE LogLevel.INFO

\* WechatStep assigning the source only once JSON.parse has returned.
WechatStepSourceAfterParse(ln, st) ==
    IF st.source = LogSource.WECHAT \/ (st.source = LogSource.UNKNOWN /\ ~Truthy(st.timestamp))
    THEN IF BracePattern(ln)
         THEN IF JSONparse(ln).ok THEN JsonBranch(ln, [st EXCEPT !.source = LogSource.WECHAT]) ELSE st
         ELSE IF BracketTagRegex(ln) THEN [st EXCEPT !.source = LogSource.WECHAT, !.level = BracketLevel(ln)]
         ELSE st
    ELSE st

\* WeChat / generic block.
WechatStep(ln, st) ==
    IF st.source = LogSource.WECHAT \/ (st.source = LogSource.UNKNOWN /\ ~Truthy(st.timestamp))
    THEN IF BracePattern(ln) THEN JsonBranch(ln, [st EXCEPT !.source = LogSource.WECHAT])
         ELSE IF BracketTagRegex(ln) THEN [st EXCEPT !.source = LogSource.WECHAT, !.level = BracketLevel(ln)]
         ELSE st
    ELSE st

\* KeywordLevel without the final INFO.
KeywordLevelNoDefault(ln) ==
    LET lowerLine == toLowerCase(ln)
    IN IF includes(lowerLine, Chars("error")) \/ includes(lowerLine, Chars("exception")) \/ includes(lowerLine, Chars("fail"))
       THEN LogLevel.ERROR
       ELSE IF includes(lowerLine, Chars("warn")) THEN LogLevel.WARNING
       ELSE IF includes(lowerLine, Chars("debug")) THEN LogLevel.DEBUG
       ELSE LogLevel.UNKNOWN

\* The level the fallback keywords give a line.
KeywordLevel(ln) ==
    LET lowerLine == toLowerCase(ln)
    IN IF includes(lowerLine, Chars("error")) \/ includes(lowerLine, Chars("exception")) \/ includes(lowerLine, Chars("fail"))
       THEN LogLevel.ERROR
       ELSE IF includes(lowerLine, Chars("warn")) THEN LogLevel.WARNING
       ELSE IF includes(lowerLine, Chars("debug")) THEN LogLevel.DEBUG
       ELSE LogLevel.INFO

\* FallbackStep without its guard.
FallbackStepAlways(ln, st) == [st EXCEPT !.level = KeywordLevel(ln)]

\* Fallback level detection.
FallbackStep(ln, st) ==
    IF st.level = LogLevel.UNKNOWN THEN [st EXCEPT !.level = KeywordLevel(ln)] ELSE st

\* MakeEntry stamping the time of the parse on a line without a timestamp.
MakeEntryTimeOfParse(ln, idx, salt, st) ==
    [id |-> [index |-> idx, salt |-> salt],
     timestamp |-> JsOr(st.timestamp, JNum(<<"1", "0", "0">> \o (IF salt = 0 THEN <<"0">> ELSE <<"1">>))),
     level |-> st.level,
     source |-> IF st.source = LogSource.UNKNOWN THEN LogSource.UNKNOWN ELSE st.source,
     message |-> st.message,
     tag |-> <<>>,
     raw |-> ln]

\* MakeEntry without the line index in the id.
MakeEntryNoIndex(ln, idx, salt, st) ==
    [id |-> [index |-> 0, salt |-> salt],
     timestamp |-> JsOr(st.timestamp, JStr(Chars("N/A"))),
     level |-> st.level,
     source |-> IF st.source = LogSource.UNKNOWN THEN LogSource.UNKNOWN ELSE st.source,
     message |-> st.message,
     tag |-> <<>>,
     raw |-> ln]

\* MakeEntry storing the trimmed line as raw.
MakeEntryTrimmedRaw(ln, idx, salt, st) ==
    [id |-> [index |-> idx, salt |-> salt],
     timestamp |-> JsOr(st.timestamp, JStr(Chars("N/A"))),
     level |-> st.level,
     source |-> IF st.source = LogSource.UNKNOWN THEN LogSource.UNKNOWN ELSE st.source,
     message |-> st.message,
     tag |-> <<>>,
     raw |-> trim(ln)]

\* The record pushed for a line; salt stands for the values Date.now()
\* and Math.random() contribute to the id.
MakeEntry(ln, idx, salt, st) ==
    [id |-> [index |-> idx, salt |-> salt],
     timestamp |-> JsOr(st.timestamp, JStr(Chars("N/A"))),
     level |-> st.level,
     source |-> IF st.source = LogSource.UNKNOWN THEN LogSource.UNKNOWN ELSE st.source,
     message |-> st.message,
     tag |-> <<>>,
     raw |-> ln]

\* Lines 23-94: the locals of one iteration after its four blocks.
Classify(ln, detected) ==
    FallbackStep(ln, WechatStep(ln, IosStep(ln, AndroidStep(ln, InitLocals(ln, detected)))))

\* Lines 20-105: the records of the lines from index idx on.
RECURSIVE ParseFrom(_, _, _, _)
ParseFrom(ls, detected, idx, salt) ==
    IF idx >= Len(ls) THEN <<>>
    ELSE IF IsBlank(ls[idx + 1]) THEN ParseFrom(ls, detected, idx + 1, salt)
    ELSE <<MakeEntry(ls[idx + 1], idx, salt, Classify(ls[idx + 1], detected))>>
         \o ParseFrom(ls, detected, idx + 1, salt)

\* parseLogFile as one call, as its callers see it.
parseLogFile(text, name, salt) == ParseFrom(split(text), DetectSource(name), 0, salt)

(***************************************************************************)
(* exportLogs                                                             *)
(***************************************************************************)

\* The text a template literal gives a value: a string is itself, a
\* boolean its name, an object "[object Object]"; a number is written as
\* its literal, which holds for the decimal integers below 2^53 that the
\* documents carry.
TemplateText(v) ==
    CASE v.t = "string" -> v.s
      [] v.t = "number" -> v.s
      [] v.t = "boolean" -> v.s
      [] v.t = "object" -> Chars("[object Object]")
      [] OTHER -> Chars(v.t)

\* s.replace(/"/g, '""')
RECURSIVE DoubleQuotes(_)
DoubleQuotes(s) ==
    IF s = <<>> THEN <<>>
    ELSE (IF Head(s) = "\"" THEN <<"\"", "\"">> ELSE <<Head(s)>>) \o DoubleQuotes(Tail(s))

\* Array.prototype.join
RECURSIVE join(_, _)
join(parts, sep) ==
    IF parts = <<>> THEN <<>>
    ELSE IF Len(parts) = 1 THEN parts[1]
    ELSE parts[1] \o sep \o join(Tail(parts), sep)

\* Line 118: one row of the CSV export.
CsvRow(l) ==
    Chars("\"") \o TemplateText(l.timestamp) \o Chars("\",\"") \o Chars(l.source) \o Chars("\",\"")
        \o Chars(l.level) \o Chars("\",\"") \o DoubleQuotes(l.message.s) \o Chars("\"")

CsvHeader == Chars("Timestamp,Source,Level,Message")

\* Lines 111-123: the content exportLogs builds for the formats csv and
\* txt.  l.message.replace is not a function when message is not a string:
\* the call throws and nothing is handed to the browser.
exportLogs(logs, format) ==
    IF format = "csv"
    THEN IF \E i \in 1..Len(logs) : logs[i].message.t # "string"
         THEN [format |-> format, thrown |-> TRUE, content |-> <<>>]
         ELSE [format |-> format, thrown |-> FALSE,
               content |-> CsvHeader \o Chars("\n") \o join([i \in 1..Len(logs) |-> CsvRow(logs[i])], Chars("\n"))]
    ELSE [format |-> format, thrown |-> FALSE,
          content |-> join([i \in 1..Len(logs) |-> logs[i].raw], Chars("\n"))]

(***************************************************************************)
(* extractPerformanceMetrics and extractInterfaceMetrics                   *)
(***************************************************************************)

\* The number a run of digits stands for.
DigitValue(c) == (CHOOSE i \in 1..Len(DigitSeq) : DigitSeq[i] = c) - 1
RECURSIVE ToNat(_)
ToNat(ds) == IF ds = <<>> THEN 0 ELSE 10 * ToNat(SubSeq(ds, 1, Len(ds) - 1)) + DigitValue(ds[Len(ds)])

RECURSIVE Pow10(_)
Pow10(n) == IF n = 0 THEN 1 ELSE 10 * Pow10(n - 1)

\* <number> tried at position i: digits with an optional fraction.  0 when
\* no digit stands at i, else the position after the number.
NumberTokenEnd(s, i) ==
    IF ~(i <= Len(s) /\ IsDigit(s[i])) THEN 0
    ELSE IF DigitRunEnd(s, i) + 1 <= Len(s) /\ s[DigitRunEnd(s, i)] = "." /\ IsDigit(s[DigitRunEnd(s, i) + 1])
         THEN DigitRunEnd(s, DigitRunEnd(s, i) + 1)
         ELSE DigitRunEnd(s, i)

\* A number token as a fraction num/den.
NumberOf(tok) ==
    IF \A k \in 1..Len(tok) : tok[k] # "."
    THEN [num |-> ToNat(tok), den |-> 1]
    ELSE LET k == CHOOSE x \in 1..Len(tok) : tok[x] = "."
         IN [num |-> ToNat(SubSeq(tok, 1, k - 1) \o SubSeq(tok, k + 1, Len(tok))), den |-> Pow10(Len(tok) - k)]

\* num/den rounded to two decimals, in hundredths.
RoundHundredths(num, den) == (200 * num + den) \div (2 * den)

\* The unit, of a list of alternatives in lower case, that stands at
\* position i in any letter case: <<>> or <<unit>>.
UnitAt(s, i, units) ==
    LET here == {k \in 1..Len(units) : startsWith(toLowerCase(SubSeq(s, i, Len(s))), units[k])}
    IN IF here = {} THEN <<>> ELSE <<units[CHOOSE k \in here : \A j \in here : k <= j]>>

\* A probe <number>\s*(unit|...) tried at position i; spaces tells whether
\* white space may stand between the number and the unit.
ProbeAt(s, i, units, spaces) ==
    IF NumberTokenEnd(s, i) = 0 THEN <<>>
    ELSE UnitAt(s, IF spaces THEN SpaceRunEnd(s, NumberTokenEnd(s, i)) ELSE NumberTokenEnd(s, i), units)

\* The first occurrence of a probe in a message: <<>> or the number and
\* the unit matched.
Probe(s, units, spaces) ==
    LET starts == {i \in 1..Len(s) : ProbeAt(s, i, units, spaces) # <<>>}
    IN IF starts = {} THEN <<>>
       ELSE LET i == CHOOSE a \in starts : \A b \in starts : a <= b
            IN <<[number |-> NumberOf(SubSeq(s, i, NumberTokenEnd(s, i) - 1)),
                  unit |-> ProbeAt(s, i, units, spaces)[1]]>>

\* MemoryValue dividing kilobytes by 1000.
MemoryValueDecimalKilo(n, unit) ==
    IF unit = Chars("kb") THEN RoundHundredths(n.num, n.den * 1000) ELSE RoundHundredths(n.num, n.den)

\* A memory figure in MB: KB values are divided by 1024.
MemoryValue(n, unit) ==
    IF unit = Chars("kb") THEN RoundHundredths(n.num, n.den * 1024) ELSE RoundHundredths(n.num, n.den)

\* The samples of the four probes, each <<>> or one PerformanceMetric;
\* value is in hundredths, label is display text and is left out.
LatencySample(l, m) ==
    IF m = <<>> THEN <<>>
    ELSE <<[timestamp |-> l.timestamp, type |-> "latency", value |-> RoundHundredths(m[1].number.num, m[1].number.den),
            unit |-> "ms"]>>
FpsSample(l, m) ==
    IF m = <<>> THEN <<>>
    ELSE <<[timestamp |-> l.timestamp, type |-> "fps", value |-> RoundHundredths(m[1].number.num, m[1].number.den),
            unit |-> "fps"]>>
MemorySample(l, m) ==
    IF m = <<>> THEN <<>>
    ELSE <<[timestamp |-> l.timestamp, type |-> "memory", value |-> MemoryValue(m[1].number, m[1].unit),
            unit |-> "MB"]>>
CpuSample(l, m) ==
    IF m = <<>> THEN <<>>
    ELSE <<[timestamp |-> l.timestamp, type |-> "cpu", value |-> RoundHundredths(m[1].number.num, m[1].number.den),
            unit |-> "%"]>>

\* The four independent probes over the message of one record.
PerformanceMetricsOf(l) ==
    LatencySample(l, Probe(l.message.s, <<Chars("ms"), Chars("milliseconds")>>, TRUE))
        \o FpsSample(l, Probe(l.message.s, <<Chars("fps")>>, TRUE))
        \o MemorySample(l, Probe(l.message.s, <<Chars("mb"), Chars("mib"), Chars("kb")>>, TRUE))
        \o CpuSample(l, Probe(l.message.s, <<Chars("%")>>, FALSE))

RECURSIVE extractPerformanceMetrics(_)
extractPerformanceMetrics(logs) ==
    IF logs = <<>> THEN <<>> ELSE PerformanceMetricsOf(Head(logs)) \o extractPerformanceMetrics(Tail(logs))

\* The verbs, in lower case, and the status codes of the interface pattern.
Verbs == <<Chars("get"), Chars("post"), Chars("put"), Chars("delete"), Chars("patch")>>
\* StatusCodes with 999 added.
StatusCodesWith999 ==
    {Chars("200"), Chars("201"), Chars("400"), Chars("401"), Chars("403"), Chars("404"), Chars("500"),
     Chars("502"), Chars("999")}
StatusCodes ==
    {Chars("200"), Chars("201"), Chars("400"), Chars("401"), Chars("403"), Chars("404"), Chars("500"),
     Chars("502")}

\* String.prototype.toUpperCase on lower-case letters.
toUpperCase(s) ==
    [i \in 1..Len(s) |->
        IF s[i] \in LowerChars THEN UpperSeq[CHOOSE k \in 1..Len(LowerSeq) : LowerSeq[k] = s[i]] ELSE s[i]]

\* The end of the URL token starting at k: it stops at white space or '?'.
UrlEnd(s, k) ==
    CHOOSE e \in k..(Len(s) + 1) :
        /\ \A j \in k..(e - 1) : ~IsSpace(s[j]) /\ s[j] # "?"
        /\ e = Len(s) + 1 \/ IsSpace(s[e]) \/ s[e] = "?"

\* A status code of the closed set stands at position q.
StatusAt(s, q) == q + 2 <= Len(s) /\ SubSeq(s, q, q + 2) \in StatusCodes

\* A duration, digits then optional white space then ms, stands at d.
DurationAt(s, d) ==
    /\ d <= Len(s)
    /\ IsDigit(s[d])
    /\ UnitAt(s, SpaceRunEnd(s, DigitRunEnd(s, d)), <<Chars("ms")>>) # <<>>

\* The first position from `from` on that satisfies P, or 0.
FirstStatus(s, from) ==
    IF \A q \in from..Len(s) : ~StatusAt(s, q) THEN 0
    ELSE CHOOSE q \in from..Len(s) : StatusAt(s, q) /\ \A r \in from..(q - 1) : ~StatusAt(s, r)
FirstDuration(s, from) ==
    IF \A d \in from..Len(s) : ~DurationAt(s, d) THEN 0
    ELSE CHOOSE d \in from..Len(s) : DurationAt(s, d) /\ \A r \in from..(d - 1) : ~DurationAt(s, r)

\* The rest of the interface pattern after a verb that ends before a: white
\* space, the URL token from b to c - 1, later a status at q and after it
\* a duration at d.  <<>> when a token is missing.
AfterStatus(s, v, b, c, q, d) ==
    IF d = 0 THEN <<>>
    ELSE <<[method |-> toUpperCase(v), url |-> SubSeq(s, b, c - 1), status |-> SubSeq(s, q, q + 2),
            duration |-> ToNat(SubSeq(s, d, DigitRunEnd(s, d) - 1))]>>
AfterUrl(s, v, b, c, q) ==
    IF q = 0 THEN <<>> ELSE AfterStatus(s, v, b, c, q, FirstDuration(s, q + 3))
AfterSpaces(s, v, b, c) ==
    IF c = b THEN <<>> ELSE AfterUrl(s, v, b, c, FirstStatus(s, c))
AfterVerb(s, v, a, b) ==
    IF b = a THEN <<>> ELSE AfterSpaces(s, v, b, UrlEnd(s, b))

\* The interface pattern tried at position i.
InterfaceAt(s, i, verb) ==
    IF verb = <<>> THEN <<>>
    ELSE AfterVerb(s, verb[1], i + Len(verb[1]), SpaceRunEnd(s, i + Len(verb[1])))

\* The first match of the interface pattern in a message, <<>> if none.
InterfaceMatch(s) ==
    LET starts == {i \in 1..Len(s) : InterfaceAt(s, i, UnitAt(s, i, Verbs)) # <<>>}
    IN IF starts = {} THEN <<>>
       ELSE InterfaceAt(s, CHOOSE a \in starts : \A b \in starts : a <= b,
                        UnitAt(s, CHOOSE a \in starts : \A b \in starts : a <= b, Verbs))

\* The InterfaceMetric of the record at position k (its id is derived
\* from k), or nothing.
InterfaceMetricOf(l, k, m) ==
    IF m = <<>> THEN <<>>
    ELSE <<[id |-> k, url |-> m[1].url, method |-> m[1].method, status |-> m[1].status,
            duration |-> m[1].duration, timestamp |-> l.timestamp]>>

RECURSIVE InterfaceMetricsFrom(_, _)
InterfaceMetricsFrom(logs, k) ==
    IF k > Len(logs) THEN <<>>
    ELSE InterfaceMetricOf(logs[k], k, InterfaceMatch(logs[k].message.s)) \o InterfaceMetricsFrom(logs, k + 1)

extractInterfaceMetrics(logs) == InterfaceMetricsFrom(logs, 1)

(***************************************************************************)
(* The App component: its state hooks, its derived list and the answers    *)
(* of the AI service                                                       *)
(***************************************************************************)

\* The two versions of the component: src/App.tsx, with the source and
\* level filters and the export menu, and the later src/unnamed/part_000,
\* with the performance view and the screenshot upload.
Builds == {"App.tsx", "part_000"}

\* The empty text '' of a state hook; the texts the AI service answers
\* with are never empty.
NoText == <<>>

\* The state hooks after the first render of build b.
Mounted(b) ==
    [build |-> b, logs |-> <<>>, loading |-> FALSE, filename |-> <<>>, searchTerm |-> <<>>,
     filterSource |-> "ALL", filterLevel |-> "ALL", selectedLog |-> JNull, aiAnalysis |-> NoText,
     analyzing |-> FALSE, showSummary |-> FALSE, summaryText |-> NoText, showPerformance |-> FALSE,
     perfMetrics |-> <<>>, interfaceMetrics |-> <<>>, perfReport |-> NoText]

\* The callback of logs.filter: log.message.toLowerCase() is evaluated
\* first, for every record.
matchesSearch(log, term) ==
    includes(toLowerCase(log.message.s), toLowerCase(term)) \/ includes(toLowerCase(log.raw), toLowerCase(term))
matchesSource(log, filter) == filter = "ALL" \/ log.source = filter
matchesLevel(log, filter) == filter = "ALL" \/ log.level = filter

\* The useMemo of filteredLogs in the state a.  message.toLowerCase is not
\* a function when message is not a string: the callback throws and the
\* render that computes the list throws with it.
filteredLogs(a) ==
    IF \E i \in 1..Len(a.logs) : a.logs[i].message.t # "string"
    THEN [thrown |-> TRUE, list |-> <<>>]
    ELSE [thrown |-> FALSE,
          list |-> SelectSeq(a.logs, LAMBDA log : /\ matchesSearch(log, a.searchTerm)
                                                   /\ matchesSource(log, a.filterSource)
                                                   /\ matchesLevel(log, a.filterLevel))]

\* The table of rows is part of the render: always in App.tsx, in the log
\* view in part_000.
TableShown(a) == a.build = "App.tsx" \/ ~a.showPerformance

\* The render of the state a throws: filteredLogs throws, or a row calls
\* log.timestamp.split on a timestamp that is not a string.  There is no
\* error boundary: React unmounts the component and no handler runs again.
RenderThrows(a) ==
    \/ filteredLogs(a).thrown
    \/ TableShown(a) /\ \E i \in 1..Len(filteredLogs(a).list) : filteredLogs(a).list[i].timestamp.t # "string"

\* handleAnalyzeLog lines 127-128: the three records before the entry when
\* it is the fourth record or a later one; part_000 passes no context.
AnalysisContext(a, entry) ==
    LET found == {i \in 1..Len(a.logs) : a.logs[i].id = entry.id}
        idx == IF found = {} THEN 0 - 1 ELSE (CHOOSE i \in found : \A j \in found : i <= j) - 1
    IN IF a.build = "App.tsx" /\ idx >= 3 THEN SubSeq(a.logs, idx - 2, idx) ELSE <<>>

\* The answers of the AI service.  Each is a text that is never empty (the
\* service falls back to a fixed message when the call fails); the model
\* keeps of a text what it was asked about: analyzeLogEntry the entry and
\* its context, generateSummary the messages of the first fifteen ERROR
\* records, analyzePerformance the interface metrics (its other two
\* arguments are not read).
analyzeLogEntry(entry, context) == <<"analysis", entry, context>>
generateSummary(logs) ==
    LET errorLogs == SelectSeq(logs, LAMBDA l : l.level = LogLevel.ERROR)
    IN <<"summary", [i \in 1..(IF Len(errorLogs) < 15 THEN Len(errorLogs) ELSE 15) |-> errorLogs[i].message]>>
analyzePerformance(metrics, interfaceMetrics, logs) == <<"report", interfaceMetrics>>

\* The network requests a screenshot can show: what
\* analyzeScreenshotForPerformance extracts from an image.
ScreenshotMetrics ==
    {<<[id |-> "img-extract-0", url |-> Chars("/pay"), method |-> Chars("POST"), status |-> Chars("500"),
        duration |-> 900, timestamp |-> JStr(Chars("10:00:00"))]>>}

(***************************************************************************)
(* The documents and file names the model draws its inputs from            *)
(***************************************************************************)

\* The largest number of lines of a multi-line document.
MaxLines == 3

\* Logcat lines: an optional prefix, the tag letter, a tag and a body.
AndroidPrefixes == {<<>>, Chars("10-27 10:00:00.123 1-1/com.x "), Chars("x")}
AndroidTags == {Chars("E/"), Chars("W/"), Chars("D/"), Chars("I/")}
AndroidBodies == {Chars("boom"), Chars("fatal error"), Chars("copy E/x"), Chars("W/ D/ seen")}
AndroidLines ==
    {p \o t \o Chars("Tag: ") \o b : p \in AndroidPrefixes, t \in AndroidTags, b \in AndroidBodies}
    \cup {Chars("FATAL AndroidRuntime crash"), Chars("E/Tag no colon"),
          Chars("Oct 27 10:00:00 host E/Tag: both"), Chars("GET HTTP/1.1: warn")}

\* Syslog lines: the time at the start of the line or in mid-line.
IosPrefixes == {Chars("Oct 27 10:00:00 iPhone Process[99] "),
                Chars("synced at Nov  7 10:00:00 iPhone Process[99] ")}
IosBodies == {Chars("<Notice>: started ok"), Chars("<Error>: bad"), Chars("<Warning>: low"),
              Chars("<Debug>: dbg"), Chars("app error: x"), Chars("an error occurred"),
              Chars("warning issued"), Chars("<Debug> <Warning>")}
IosLines == {p \o b : p \in IosPrefixes, b \in IosBodies}

\* Mini-program JSON lines: a level field, a message field and a time
\* field, each in several shapes or absent.
JsonLevelFields == {<<>>, Chars("\"level\":\"error\""), Chars("\"level\":\"warn\""),
                    Chars("\"level\":\"Error\""), Chars("\"level\":\"info\""), Chars("\"level\":5"),
                    Chars("\"level\":\"\""), Chars("\"level\":true"), Chars("\"level\":{\"n\":1}")}
JsonMessageFields == {<<>>, Chars("\"msg\":\"timeout\""), Chars("\"message\":\"m1\",\"msg\":\"m2\""),
                      Chars("\"message\":\"\",\"msg\":\"fallback\""), Chars("\"message\":1234567"),
                      Chars("\"msg\":\"error here\""), Chars("\"message\":{\"code\":7}")}
JsonTimeFields == {<<>>, Chars("\"time\":\"12:00:01\""), Chars("\"timestamp\":\"12:00:02\""),
                   Chars("\"time\":1698400800123"), Chars("\"time\":\"\",\"timestamp\":\"12:00:02\""),
                   Chars("\"time\":\"t1\",\"timestamp\":\"t2\""), Chars("\"timestamp\":{\"ms\":1698400800123}")}

\* Two field lists joined by a comma when neither is empty.
JoinFields(a, b) == IF a = <<>> THEN b ELSE IF b = <<>> THEN a ELSE a \o Chars(",") \o b

JsonLines ==
    {Chars("{") \o JoinFields(JoinFields(l, m), t) \o Chars("}") :
        l \in JsonLevelFields, m \in JsonMessageFields, t \in JsonTimeFields}
    \cup {Chars("{oops}"), Chars("{\"msg\":\"x\",}"), Chars("{\"level\":\"error\",\"msg\":\"fail\""),
          Chars("{\"msg\":\"copied to E/Tag: boom\"}"), Chars("{\"time\":\"Oct 27 10:00:00\",\"msg\":\"x\"}"),
          Chars(" {\"msg\":\"x\"}"), Chars("{ \"msg\" : \"warned\" }"), Chars("{\"level\":\"error\" broken}")}

BracketLines == {Chars("[INFO] ready"), Chars("[ERR] bad"), Chars("[WARN] low"), Chars("[ERROR] x"),
                 Chars("[WARNING] failed"), Chars("[INFO] saw [ERR here"), Chars("[DEBUG] x")}

PlainLines == {Chars("plain text"), Chars("Connection FAILED"), Chars("Exception in thread"),
               Chars("a warning"), Chars("Debug mode"), Chars("  padded warn \t"), Chars("ok\r"),
               Chars("error then warn then debug")}

BlankLines == {<<>>, Chars("   "), Chars("\t")}

LineVocabulary == AndroidLines \cup IosLines \cup JsonLines \cup BracketLines \cup PlainLines \cup BlankLines

\* The lines multi-line documents are made of.
ShortLines == {<<>>, Chars("E/T: a"), Chars("{\"msg\":\"m\",\"time\":\"t\"}"), Chars(" warn\r")}
Separators == {Chars("\n"), Chars("\r\n")}

RECURSIVE JoinedDocs(_)
JoinedDocs(n) ==
    IF n = 1 THEN ShortLines
    ELSE {d \o sep \o l : d \in JoinedDocs(n - 1), sep \in Separators, l \in ShortLines}

LongDocuments == UNION {JoinedDocs(n) : n \in 2..MaxLines}

FileNames == {<<>>, Chars("android.log"), Chars("device.syslog"), Chars("miniprogram.log"),
              Chars("LOGCAT.txt"), Chars("android_bios.log"), Chars("WeChat.log"),
              Chars("MiniProgram.log"), Chars("wechat_android.log")}

\* The file names multi-line documents are parsed under: one per prior.
LongDocumentFileNames == {<<>>, Chars("android.log"), Chars("device.syslog"), Chars("miniprogram.log")}

\* The pairs of a document and a file name parseLogFile is called on.
Inputs == (LineVocabulary \X FileNames) \cup (LongDocuments \X LongDocumentFileNames)

Salts == {0, 1}

\* Nothing has been exported.
NoDownload == [format |-> "none", thrown |-> FALSE, content |-> <<>>]

(***************************************************************************)
(* parseLogFile as a state machine                                         *)
(***************************************************************************)

VARIABLES
    content,        \* the document handed to parseLogFile
    fileName,       \* the file-name hint
    pc,             \* the position inside parseLogFile
    lines,          \* content.split(/\r?\n/)
    detectedSource, \* the file-level prior
    index,          \* the forEach index of the current line (0-based)
    entries,        \* the records pushed so far
    level, timestamp, message, source,  \* the callback's locals
    returned,       \* the results of the calls that have returned, oldest first
    download,       \* what exportLogs handed to the browser last
    sysMetrics,     \* the result of extractPerformanceMetrics
    apiMetrics,     \* the result of extractInterfaceMetrics
    app,            \* the state hooks of the App component
    requests,       \* the file reads and AI calls whose callbacks are pending
    events          \* the number of events the user has caused

vars == <<content, fileName, pc, lines, detectedSource, index, entries, level, timestamp, message, source,
          returned, download, sysMetrics, apiMetrics, app, requests, events>>

\* The current line of the forEach.
line == lines[index + 1]

\* The callback's locals as one record, and their assignment.
Locals == [level |-> level, timestamp |-> timestamp, message |-> message, source |-> source]
SetLocals(st) ==
    /\ level' = st.level
    /\ timestamp' = st.timestamp
    /\ message' = st.message
    /\ source' = st.source

\* The state before parseLogFile is called on one of the inputs, each a
\* document and a file name.
InitWith(inputs) ==
    /\ \E in \in inputs : content = in[1] /\ fileName = in[2]
    /\ pc = "start"
    /\ lines = <<>>
    /\ detectedSource = LogSource.UNKNOWN
    /\ index = 0
    /\ entries = <<>>
    /\ level = LogLevel.UNKNOWN
    /\ timestamp = JStr(<<>>)
    /\ message = JStr(<<>>)
    /\ source = LogSource.UNKNOWN
    /\ returned = <<>>
    /\ download = NoDownload
    /\ sysMetrics = <<>>
    /\ apiMetrics = <<>>
    /\ app = Mounted("part_000")
    /\ requests = <<>>
    /\ events = 0

Init == InitWith(Inputs)

\* Lines 7-18: split the content and compute the prior.
Start ==
    /\ pc = "start"
    /\ lines' = split(content)
    /\ detectedSource' = DetectSource(fileName)
    /\ pc' = "loop"
    /\ UNCHANGED <<content, fileName, index, entries, level, timestamp, message, source, returned,
                   download, sysMetrics, apiMetrics, app, requests, events>>

\* Lines 20 and 107: forEach is over and the records are returned.
Finish ==
    /\ pc = "loop"
    /\ index >= Len(lines)
    /\ pc' = "done"
    /\ returned' = Append(returned, [content |-> content, fileName |-> fileName, entries |-> entries])
    /\ UNCHANGED <<content, fileName, lines, detectedSource, index, entries, level, timestamp, message, source,
                   download, sysMetrics, apiMetrics, app, requests, events>>

\* Line 21: a blank line returns from the callback.
SkipBlank ==
    /\ pc = "loop"
    /\ index < Len(lines)
    /\ IsBlank(line)
    /\ index' = index + 1
    /\ UNCHANGED <<content, fileName, pc, lines, detectedSource, entries, level, timestamp, message, source, returned,
                   download, sysMetrics, apiMetrics, app, requests, events>>

\* BeginLine declaring level and timestamp outside the callback: they keep
\* the values the previous line left.
BeginLineKeepingLevel ==
    /\ pc = "loop"
    /\ index < Len(lines)
    /\ ~IsBlank(line)
    /\ message' = JStr(line)
    /\ source' = detectedSource
    /\ pc' = "android"
    /\ UNCHANGED <<content, fileName, lines, detectedSource, index, entries, level, timestamp, returned,
                   download, sysMetrics, apiMetrics, app, requests, events>>

\* Lines 23-27: the locals of one iteration.
BeginLine ==
    /\ pc = "loop"
    /\ index < Len(lines)
    /\ ~IsBlank(line)
    /\ SetLocals(InitLocals(line, detectedSource))
    /\ pc' = "android"
    /\ UNCHANGED <<content, fileName, lines, detectedSource, index, entries, returned,
                   download, sysMetrics, apiMetrics, app, requests, events>>

\* Lines 32-44.
Android ==
    /\ pc = "android"
    /\ SetLocals(AndroidStep(line, Locals))
    /\ pc' = "ios"
    /\ UNCHANGED <<content, fileName, lines, detectedSource, index, entries, returned,
                   download, sysMetrics, apiMetrics, app, requests, events>>

\* Lines 48-59.
Ios ==
    /\ pc = "ios"
    /\ SetLocals(IosStep(line, Locals))
    /\ pc' = "wechat"
    /\ UNCHANGED <<content, fileName, lines, detectedSource, index, entries, returned,
                   download, sysMetrics, apiMetrics, app, requests, events>>

\* Lines 63-85.
Wechat ==
    /\ pc = "wechat"
    /\ SetLocals(WechatStep(line, Locals))
    /\ pc' = "fallback"
    /\ UNCHANGED <<content, fileName, lines, detectedSource, index, entries, returned,
                   download, sysMetrics, apiMetrics, app, requests, events>>

\* Lines 88-94.
Fallback ==
    /\ pc = "fallback"
    /\ SetLocals(FallbackStep(line, Locals))
    /\ pc' = "push"
    /\ UNCHANGED <<content, fileName, lines, detectedSource, index, entries, returned,
                   download, sysMetrics, apiMetrics, app, requests, events>>

\* Lines 96-104.
Push ==
    /\ pc = "push"
    /\ \E salt \in Salts : entries' = Append(entries, MakeEntry(line, index, salt, Locals))
    /\ index' = index + 1
    /\ pc' = "loop"
    /\ UNCHANGED <<content, fileName, lines, detectedSource, level, timestamp, message, source, returned,
                   download, sysMetrics, apiMetrics, app, requests, events>>

Next == Start \/ Finish \/ SkipBlank \/ BeginLine \/ Android \/ Ios \/ Wechat \/ Fallback \/ Push

Spec == Init /\ [][Next]_vars

\* The documents, file names and number of calls of repeated parsing.
MaxCalls == 3
RerunDocuments == {Chars("E/T: a"), Chars(" warn\r\n\n{\"msg\":\"m\",\"time\":\"t\"}")}
RerunFileNames == {<<>>, Chars("miniprogram.log")}

RerunInit == InitWith(RerunDocuments \X RerunFileNames)

\* A further call of parseLogFile, after the previous one has returned:
\* fresh lines, entries and prior (lines 7-11); nothing else is kept by
\* the function between calls.
Call ==
    /\ pc = "done"
    /\ Len(returned) < MaxCalls
    /\ content' \in RerunDocuments
    /\ fileName' \in RerunFileNames
    /\ pc' = "start"
    /\ lines' = <<>>
    /\ detectedSource' = LogSource.UNKNOWN
    /\ index' = 0
    /\ entries' = <<>>
    /\ UNCHANGED <<level, timestamp, message, source, returned,
                   download, sysMetrics, apiMetrics, app, requests, events>>

RerunNext == Next \/ Call

RerunSpec == RerunInit /\ [][RerunNext]_vars

\* The documents and file names whose records are exported and scanned
\* for metrics.
MetricLines ==
    {Chars("used 2048KB"), Chars("heap 512MB"), Chars("cache 1.5 MiB"), Chars("rss 1000KB"),
     Chars("GET /api/v1/user?x=1 status:200 took:45ms"), Chars("GET /api/v1/user status:999 took:45ms"),
     Chars("took:45ms status:200 GET /api/v1/user"), Chars("POST /login 401 in 1200 ms"),
     Chars("delete /cart/7?force 500 7ms"), Chars("GET /health 200"), Chars("PUT 201 9ms"),
     Chars("60fps cpu 35% mem 256MB frame 16ms"), Chars("no figures here"), Chars("build 7 done"),
     Chars("{\"msg\":\"PATCH /item/3 403 88ms\",\"time\":\"12:00:01\"}")}
CsvLines ==
    {Chars("{\"time\":\"1\\\"2\"}"), Chars("{\"msg\":\"say \\\"hi\\\", bye\",\"time\":\"12:00:01\"}"),
     Chars("a, \"b\""), Chars("{\"msg\":\"two\\nlines\"}"), Chars("{\"msg\":\"m\",\"time\":1698400800123}"),
     Chars("{\"message\":1234567,\"time\":\"t\"}")}
PipelinePairs ==
    {a \o sep \o b : a \in {Chars("used 2048KB"), Chars("GET /api/v1/user?x=1 status:200 took:45ms"), Chars("a, \"b\"")},
                     sep \in {Chars("\n"), Chars("\n \n")},
                     b \in {Chars("heap 512MB"), Chars("GET /api/v1/user status:999 took:45ms"),
                            Chars("no figures here"), Chars("POST /login 401 in 1200 ms")}}
PipelineDocuments == MetricLines \cup CsvLines \cup PipelinePairs \cup {<<>>}
PipelineFileNames == {<<>>, Chars("miniprogram.log")}
Formats == {"csv", "txt"}

PipelineInit == InitWith(PipelineDocuments \X PipelineFileNames)

\* exportLogs(logs, format) on the records parseLogFile returned.
Export ==
    /\ pc \in {"done", "perf", "api"}
    /\ \E format \in Formats : download' = exportLogs(entries, format)
    /\ UNCHANGED <<content, fileName, pc, lines, detectedSource, index, entries, level, timestamp, message, source,
                   returned, sysMetrics, apiMetrics, app, requests, events>>

\* const sysMetrics = extractPerformanceMetrics(logs)
ExtractPerformance ==
    /\ pc = "done"
    /\ sysMetrics' = extractPerformanceMetrics(entries)
    /\ pc' = "perf"
    /\ UNCHANGED <<content, fileName, lines, detectedSource, index, entries, level, timestamp, message, source,
                   returned, download, apiMetrics, app, requests, events>>

\* const apiMetrics = extractInterfaceMetrics(logs)
ExtractInterface ==
    /\ pc = "perf"
    /\ apiMetrics' = extractInterfaceMetrics(entries)
    /\ pc' = "api"
    /\ UNCHANGED <<content, fileName, lines, detectedSource, index, entries, level, timestamp, message, source,
                   returned, download, sysMetrics, app, requests, events>>

PipelineNext == Next \/ Export \/ ExtractPerformance \/ ExtractInterface

PipelineSpec == PipelineInit /\ [][PipelineNext]_vars

(***************************************************************************)
(* The App component as a state machine: one action per event handler and  *)
(* per callback of a file read or an AI call                               *)
(***************************************************************************)

\* The log files the user picks: a document and a file name each.
AppFiles ==
    {<<Chars("GET /api/v1/user status:200 took:45ms\n{\"level\":\"warn\",\"msg\":\"m\"}"), <<>>>>,
     <<Chars("E/T: Failed"), Chars("android.log")>>,
     <<Chars("{\"message\":1234567}"), Chars("miniprogram.log")>>}

\* What the user types into the search box, and the options of the two
\* selects of App.tsx.
SearchTerms == {<<>>, Chars("WARN")}
SourceFilters == {"ALL", LogSource.IOS, LogSource.ANDROID, LogSource.WECHAT}
LevelFilters == {"ALL", LogLevel.ERROR, LogLevel.WARNING, LogLevel.INFO, LogLevel.DEBUG}

\* The number of events of the user the model follows the component for.
MaxEvents == 3

\* The variables of parseLogFile, which the component calls as a whole.
parserVars == <<content, fileName, pc, lines, detectedSource, index, entries, level, timestamp, message, source,
                returned>>

\* Loaded resetting the performance hooks with the views.
LoadedClearingMetrics(a, file) ==
    [a EXCEPT !.logs = parseLogFile(file[1], file[2], 0),
              !.loading = FALSE,
              !.selectedLog = JNull,
              !.aiAnalysis = IF a.build = "App.tsx" THEN NoText ELSE @,
              !.showSummary = FALSE,
              !.showPerformance = IF a.build = "part_000" THEN FALSE ELSE @,
              !.perfMetrics = <<>>,
              !.interfaceMetrics = <<>>,
              !.perfReport = NoText]

\* The state hooks once reader.onload has stored the records of a file;
\* the part of the id that Date.now() and Math.random() give does not
\* matter to the component and is 0 here.
Loaded(a, file) ==
    [a EXCEPT !.logs = parseLogFile(file[1], file[2], 0),
              !.loading = FALSE,
              !.selectedLog = JNull,
              !.aiAnalysis = IF a.build = "App.tsx" THEN NoText ELSE @,
              !.showSummary = FALSE,
              !.showPerformance = IF a.build = "part_000" THEN FALSE ELSE @]

\* The component after its first render, or with a first file loaded and
\* its records on the screen.
AppInit ==
    /\ content = <<>>
    /\ fileName = <<>>
    /\ pc = "start"
    /\ lines = <<>>
    /\ detectedSource = LogSource.UNKNOWN
    /\ index = 0
    /\ entries = <<>>
    /\ level = LogLevel.UNKNOWN
    /\ timestamp = JStr(<<>>)
    /\ message = JStr(<<>>)
    /\ source = LogSource.UNKNOWN
    /\ returned = <<>>
    /\ download = NoDownload
    /\ sysMetrics = <<>>
    /\ apiMetrics = <<>>
    /\ \E b \in Builds :
          \/ app = Mounted(b)
          \/ \E file \in AppFiles :
                /\ app = [Loaded(Mounted(b), file) EXCEPT !.filename = file[2]]
                /\ ~RenderThrows(app)
    /\ requests = <<>>
    /\ events = 0

\* The component is mounted: no render has thrown.
Alive == ~RenderThrows(app)

\* An event of the user, and a callback of a file read or an AI call.
UserEvent == events < MaxEvents /\ events' = events + 1
Callback == events' = events

\* A pending request, and the pending requests without the i-th.
Request(kind, of) == [kind |-> kind, of |-> of]
Pending(i, kind) == i \in 1..Len(requests) /\ requests[i].kind = kind
Without(i) == SubSeq(requests, 1, i - 1) \o SubSeq(requests, i + 1, Len(requests))

\* handleFileUpload up to reader.readAsText(file).
handleFileUpload ==
    /\ Alive
    /\ UserEvent
    /\ \E file \in AppFiles :
          /\ app' = [app EXCEPT !.loading = TRUE, !.filename = file[2]]
          /\ requests' = Append(requests, Request("readAsText", file))
    /\ UNCHANGED <<parserVars, download, sysMetrics, apiMetrics>>

\* reader.onload of handleFileUpload.
FileLoaded ==
    /\ Alive
    /\ Callback
    /\ \E i \in 1..Len(requests) :
          /\ Pending(i, "readAsText")
          /\ app' = Loaded(app, requests[i].of)
          /\ requests' = Without(i)
    /\ UNCHANGED <<parserVars, download, sysMetrics, apiMetrics>>

\* A FileReader that cannot read its file fires onerror, which neither
\* handler sets: the read ends and no state hook is set.
ReadFailed ==
    /\ Alive
    /\ Callback
    /\ \E i \in 1..Len(requests) :
          /\ Pending(i, "readAsText") \/ Pending(i, "readAsDataURL")
          /\ requests' = Without(i)
    /\ UNCHANGED <<parserVars, download, sysMetrics, apiMetrics, app>>

\* Search storing the filtered list in logs.
SearchStoringFilteredList ==
    /\ Alive
    /\ UserEvent
    /\ \E term \in SearchTerms :
          app' = [app EXCEPT !.searchTerm = term,
                             !.logs = filteredLogs([app EXCEPT !.searchTerm = term]).list]
    /\ UNCHANGED <<parserVars, download, sysMetrics, apiMetrics, requests>>

\* onChange of the search box.
Search ==
    /\ Alive
    /\ UserEvent
    /\ \E term \in SearchTerms : app' = [app EXCEPT !.searchTerm = term]
    /\ UNCHANGED <<parserVars, download, sysMetrics, apiMetrics, requests>>

\* onChange of the source select of App.tsx.
SelectSource ==
    /\ Alive
    /\ UserEvent
    /\ app.build = "App.tsx"
    /\ \E filter \in SourceFilters : app' = [app EXCEPT !.filterSource = filter]
    /\ UNCHANGED <<parserVars, download, sysMetrics, apiMetrics, requests>>

\* onChange of the level select of App.tsx.
SelectLevel ==
    /\ Alive
    /\ UserEvent
    /\ app.build = "App.tsx"
    /\ \E filter \in LevelFilters : app' = [app EXCEPT !.filterLevel = filter]
    /\ UNCHANGED <<parserVars, download, sysMetrics, apiMetrics, requests>>

\* onClick of a row of the table.
SelectRow ==
    /\ Alive
    /\ UserEvent
    /\ TableShown(app)
    /\ \E i \in 1..Len(filteredLogs(app).list) :
          app' = [app EXCEPT !.selectedLog = filteredLogs(app).list[i],
                             !.aiAnalysis = NoText,
                             !.showSummary = IF app.build = "App.tsx" THEN FALSE ELSE @]
    /\ UNCHANGED <<parserVars, download, sysMetrics, apiMetrics, requests>>

\* The close button of the detail panel.
CloseDetail ==
    /\ Alive
    /\ UserEvent
    /\ app.selectedLog # JNull
    /\ TableShown(app)
    /\ app' = [app EXCEPT !.selectedLog = JNull]
    /\ UNCHANGED <<parserVars, download, sysMetrics, apiMetrics, requests>>

\* The close button of the summary panel.
CloseSummary ==
    /\ Alive
    /\ UserEvent
    /\ app.showSummary
    /\ app.build = "App.tsx" => app.selectedLog = JNull
    /\ app' = [app EXCEPT !.showSummary = FALSE]
    /\ UNCHANGED <<parserVars, download, sysMetrics, apiMetrics, requests>>

\* handleExport of App.tsx.
handleExport ==
    /\ Alive
    /\ UserEvent
    /\ app.build = "App.tsx"
    /\ filteredLogs(app).list # <<>>
    /\ \E format \in Formats : download' = exportLogs(filteredLogs(app).list, format)
    /\ UNCHANGED <<parserVars, sysMetrics, apiMetrics, app, requests>>

\* The analysis button of the detail panel, shown while no analysis runs
\* and none is displayed: handleAnalyzeLog up to its await.
handleAnalyzeLog ==
    /\ Alive
    /\ UserEvent
    /\ app.selectedLog # JNull
    /\ TableShown(app)
    /\ ~app.analyzing
    /\ app.aiAnalysis = NoText
    /\ app' = [app EXCEPT !.analyzing = TRUE, !.aiAnalysis = NoText]
    /\ requests' = Append(requests, Request("analyzeLogEntry",
                                            <<app.selectedLog, AnalysisContext(app, app.selectedLog)>>))
    /\ UNCHANGED <<parserVars, download, sysMetrics, apiMetrics>>

\* handleAnalyzeLog after its await.
AnalysisDone ==
    /\ Alive
    /\ Callback
    /\ \E i \in 1..Len(requests) :
          /\ Pending(i, "analyzeLogEntry")
          /\ app' = [app EXCEPT !.aiAnalysis = analyzeLogEntry(requests[i].of[1], requests[i].of[2]),
                                !.analyzing = FALSE]
          /\ requests' = Without(i)
    /\ UNCHANGED <<parserVars, download, sysMetrics, apiMetrics>>

\* handleGenerateSummary up to its await.
handleGenerateSummary ==
    /\ Alive
    /\ UserEvent
    /\ app.logs # <<>>
    /\ app' = [app EXCEPT !.analyzing = TRUE,
                          !.showSummary = TRUE,
                          !.showPerformance = IF app.build = "part_000" THEN FALSE ELSE @]
    /\ requests' = Append(requests, Request("generateSummary", app.logs))
    /\ UNCHANGED <<parserVars, download, sysMetrics, apiMetrics>>

\* handleGenerateSummary after its await.
SummaryDone ==
    /\ Alive
    /\ Callback
    /\ \E i \in 1..Len(requests) :
          /\ Pending(i, "generateSummary")
          /\ app' = [app EXCEPT !.summaryText = generateSummary(requests[i].of), !.analyzing = FALSE]
          /\ requests' = Without(i)
    /\ UNCHANGED <<parserVars, download, sysMetrics, apiMetrics>>

\* handleGeneratePerformance of part_000 up to its await; the interface
\* metrics handed to analyzePerformance are those of the render the
\* handler was created in.
handleGeneratePerformance ==
    /\ Alive
    /\ UserEvent
    /\ app.build = "part_000"
    /\ ~(app.logs = <<>> /\ app.interfaceMetrics = <<>>)
    /\ sysMetrics' = extractPerformanceMetrics(app.logs)
    /\ apiMetrics' = extractInterfaceMetrics(app.logs)
    /\ app' = [app EXCEPT !.analyzing = TRUE,
                          !.showPerformance = TRUE,
                          !.showSummary = FALSE,
                          !.selectedLog = JNull,
                          !.interfaceMetrics = IF apiMetrics' # <<>> THEN apiMetrics' ELSE @,
                          !.perfMetrics = sysMetrics']
    /\ requests' = Append(requests, Request("analyzePerformance",
                                            IF app.interfaceMetrics # <<>> THEN app.interfaceMetrics
                                            ELSE apiMetrics'))
    /\ UNCHANGED <<parserVars, download>>

\* handleGeneratePerformance after its await.
PerformanceDone ==
    /\ Alive
    /\ Callback
    /\ \E i \in 1..Len(requests) :
          /\ Pending(i, "analyzePerformance")
          /\ app' = [app EXCEPT !.perfReport = analyzePerformance(app.perfMetrics, requests[i].of, app.logs),
                                !.analyzing = FALSE]
          /\ requests' = Without(i)
    /\ UNCHANGED <<parserVars, download, sysMetrics, apiMetrics>>

\* handleScreenshotUpload of part_000 up to reader.readAsDataURL(file).
handleScreenshotUpload ==
    /\ Alive
    /\ UserEvent
    /\ app.build = "part_000"
    /\ app' = [app EXCEPT !.analyzing = TRUE, !.showPerformance = TRUE, !.perfReport = NoText]
    /\ requests' = Append(requests, Request("readAsDataURL", <<>>))
    /\ UNCHANGED <<parserVars, download, sysMetrics, apiMetrics>>

\* reader.onload of handleScreenshotUpload up to its await.
ImageLoaded ==
    /\ Alive
    /\ Callback
    /\ \E i \in 1..Len(requests) :
          /\ Pending(i, "readAsDataURL")
          /\ requests' = Append(Without(i), Request("analyzeScreenshotForPerformance", <<>>))
    /\ UNCHANGED <<parserVars, download, sysMetrics, apiMetrics, app>>

\* reader.onload of handleScreenshotUpload after its await, when the
\* service has answered.
ScreenshotDone ==
    /\ Alive
    /\ Callback
    /\ \E i \in 1..Len(requests), metrics \in ScreenshotMetrics :
          /\ Pending(i, "analyzeScreenshotForPerformance")
          /\ app' = [app EXCEPT !.interfaceMetrics = metrics \o @,
                                !.perfReport = analyzePerformance(<<>>, metrics, <<>>),
                                !.analyzing = FALSE]
          /\ requests' = Without(i)
    /\ UNCHANGED <<parserVars, download, sysMetrics, apiMetrics>>

\* reader.onload of handleScreenshotUpload when the service has thrown:
\* the catch block alerts and the finally block clears the flag.
ScreenshotFailed ==
    /\ Alive
    /\ Callback
    /\ \E i \in 1..Len(requests) :
          /\ Pending(i, "analyzeScreenshotForPerformance")
          /\ app' = [app EXCEPT !.analyzing = FALSE]
          /\ requests' = Without(i)
    /\ UNCHANGED <<parserVars, download, sysMetrics, apiMetrics>>

\* The two view buttons of part_000.
ShowLogView ==
    /\ Alive
    /\ UserEvent
    /\ app.build = "part_000"
    /\ app' = [app EXCEPT !.showPerformance = FALSE]
    /\ UNCHANGED <<parserVars, download, sysMetrics, apiMetrics, requests>>

ShowPerformanceView ==
    /\ Alive
    /\ UserEvent
    /\ app.build = "part_000"
    /\ app' = [app EXCEPT !.showPerformance = TRUE]
    /\ UNCHANGED <<parserVars, download, sysMetrics, apiMetrics, requests>>

AppNext ==
    \/ handleFileUpload \/ FileLoaded \/ ReadFailed
    \/ Search \/ SelectSource \/ SelectLevel \/ SelectRow \/ CloseDetail \/ CloseSummary \/ handleExport
    \/ handleAnalyzeLog \/ AnalysisDone
    \/ handleGenerateSummary \/ SummaryDone
    \/ handleGeneratePerformance \/ PerformanceDone
    \/ handleScreenshotUpload \/ ImageLoaded \/ ScreenshotDone \/ ScreenshotFailed
    \/ ShowLogView \/ ShowPerformanceView

AppSpec == AppInit /\ [][AppNext]_vars

\* The callbacks that end a request or a part of one.  A FileReader ends
\* with onload or onerror, and every call of the AI service returns or
\* throws (it awaits one network request): a pending callback is run in
\* the end.  The user owes the component no event.
Completion ==
    \/ ReadFailed \/ AnalysisDone \/ SummaryDone \/ PerformanceDone
    \/ ImageLoaded \/ ScreenshotDone \/ ScreenshotFailed

FairAppSpec == AppSpec /\ WF_vars(Completion)

(***************************************************************************)
(* Vocabulary of the properties                                            *)
(***************************************************************************)

ConcreteLevels == {LogLevel.ERROR, LogLevel.WARNING, LogLevel.INFO, LogLevel.DEBUG}
NotAvailable == JStr(Chars("N/A"))
EntryIndices == 1..Len(entries)

\* A line has a character that is not white space.
HasVisibleChar(ln) == \E i \in 1..Len(ln) : ln[i] \notin {" ", "\t", "\r", "\n", "\f"}

\* The number of line feeds of a text.
LineFeeds(s) == Cardinality({i \in 1..Len(s) : s[i] = "\n"})

\* The word occurs in the line, letter case ignored.
Mentions(ln, word) ==
    \E i \in 0..(Len(ln) - Len(word)) :
        \A k \in 1..Len(word) : toLowerCase(<<ln[i + k]>>) = <<word[k]>>

\* The severity the fallback keywords stand for, by their precedence.
KeywordSeverity(ln) ==
    IF Mentions(ln, Chars("error")) \/ Mentions(ln, Chars("exception")) \/ Mentions(ln, Chars("fail"))
    THEN LogLevel.ERROR
    ELSE IF Mentions(ln, Chars("warn")) THEN LogLevel.WARNING
    ELSE IF Mentions(ln, Chars("debug")) THEN LogLevel.DEBUG
    ELSE LogLevel.INFO

\* The letter c stands before a '/' at the start of the line or after a blank.
HasTagLetter(ln, c) ==
    \E i \in 1..(Len(ln) - 1) : ln[i] = c /\ ln[i + 1] = "/" /\ (i = 1 \/ ln[i - 1] = " ")

\* The severity of a logcat line by the precedence E, W, D of its tag letters.
TagLetterSeverity(ln) ==
    IF HasTagLetter(ln, "E") THEN LogLevel.ERROR
    ELSE IF HasTagLetter(ln, "W") THEN LogLevel.WARNING
    ELSE IF HasTagLetter(ln, "D") THEN LogLevel.DEBUG
    ELSE LogLevel.INFO

\* The positions where an `X/tag:` token starts, and the letter of the
\* first such token.
TagTokenStarts(ln) ==
    {i \in 1..(Len(ln) - 2) : IsUpper(ln[i]) /\ ln[i + 1] = "/" /\ \E j \in (i + 2)..Len(ln) : ln[j] = ":"}
OwnTagLetter(ln) == ln[CHOOSE i \in TagTokenStarts(ln) : \A j \in TagTokenStarts(ln) : i <= j]
LetterSeverity(c) ==
    CASE c = "E" -> LogLevel.ERROR
      [] c = "W" -> LogLevel.WARNING
      [] c = "D" -> LogLevel.DEBUG
      [] OTHER -> LogLevel.INFO

\* The MM-DD HH:MM:SS.mmm substring of a line, or N/A.
AndroidTimeOrNA(ln) == IF AndroidTimeMatch(ln) # <<>> THEN JStr(AndroidTimeMatch(ln)[1]) ELSE NotAvailable

\* The value of the first of two fields that is present, else a default.
FirstPresent(props, a, b, default) ==
    IF a \in DOMAIN props THEN props[a] ELSE IF b \in DOMAIN props THEN props[b] ELSE default

\* Handling of a brace-delimited line fails inside the JSON branch.
JsonHandlingFails(ln) ==
    \/ ~JSONparse(ln).ok
    \/ LET lvl == GetProp(JSONparse(ln).props, Chars("level")) IN Truthy(lvl) /\ lvl.t # "string"

\* None of the three structural patterns matches the line.
NoStructuralPattern(ln) ==
    ~AndroidPattern(ln) /\ ~IosPattern(ln) /\ ~BracePattern(ln) /\ ~BracketTagRegex(ln)

(***************************************************************************)
(* Properties                                                              *)
(***************************************************************************)

\* C1: when parseLogFile returns, the document has one line more than it
\* has line feeds, and the raw texts of the records are exactly the
\* non-blank lines of the document, in line order, repetitions kept.
C1_OneRecordPerNonBlankLine ==
    pc = "done" =>
        /\ Len(lines) = LineFeeds(content) + 1
        /\ [i \in EntryIndices |-> entries[i].raw] = SelectSeq(lines, HasVisibleChar)

\* C1 witness: two identical non-blank lines around a blank one gave two records.
C1_Witness ==
    /\ pc = "done"
    /\ Len(lines) = 3
    /\ ~HasVisibleChar(lines[2])
    /\ Len(entries) = 2
    /\ entries[1].raw = entries[2].raw

\* C2: every record has a level among ERROR, WARNING, INFO and DEBUG,
\* never UNKNOWN.
C2_LevelNeverUnknown ==
    \A i \in EntryIndices : entries[i].level \in ConcreteLevels

\* C2 witness: a record for a brace-delimited line whose JSON handling
\* failed, and one for a JSON line without a level field.
C2_Witness ==
    /\ pc = "done"
    /\ \E i \in EntryIndices :
          /\ entries[i].source = LogSource.WECHAT
          /\ BracePattern(entries[i].raw)
          /\ \/ JsonHandlingFails(entries[i].raw)
             \/ Chars("level") \notin DOMAIN JSONparse(entries[i].raw).props

\* C3: raw of every record is the exact text of the line at the record's
\* line index, white space included.
C3_RawIsTheLine ==
    \A i \in EntryIndices : entries[i].raw = lines[entries[i].id.index + 1]

\* C3 witness: a record of the JSON branch whose message and timestamp
\* were replaced, and a record whose line has leading and trailing blanks.
C3_Witness ==
    /\ \E i \in EntryIndices :
          /\ entries[i].message # JStr(entries[i].raw)
          /\ entries[i].timestamp # NotAvailable
          /\ BracePattern(entries[i].raw)
    /\ \E i \in EntryIndices :
          /\ IsSpace(entries[i].raw[1])
          /\ IsSpace(entries[i].raw[Len(entries[i].raw)])

\* C4: timestamp of every record is a non-empty text string and message
\* of every record is a text string.
C4_FieldsAreText ==
    \A i \in EntryIndices :
        /\ entries[i].timestamp.t = "string"
        /\ entries[i].timestamp.s # <<>>
        /\ entries[i].message.t = "string"

\* C5: a record of a brace-delimited line whose handling failed inside the
\* JSON branch is the plain-text record: message is the raw line,
\* timestamp is N/A and level comes from the fallback keywords.
C5_FailedJsonIsPlainText ==
    \A i \in EntryIndices :
        (/\ entries[i].source = LogSource.WECHAT
         /\ BracePattern(entries[i].raw)
         /\ JsonHandlingFails(entries[i].raw))
        => /\ entries[i].message = JStr(entries[i].raw)
           /\ entries[i].timestamp = NotAvailable
           /\ entries[i].level = KeywordSeverity(entries[i].raw)

\* C6 as stated: under every prior a line that matches the Android
\* structural pattern is recorded with source ANDROID and the level of the
\* Android block.
C6_AndroidUnderEveryPrior ==
    \A i \in EntryIndices :
        AndroidPattern(entries[i].raw)
        => /\ entries[i].source = LogSource.ANDROID
           /\ entries[i].level = TagLetterSeverity(entries[i].raw)

\* C6 amended: under an ANDROID or UNKNOWN prior a line that matches the
\* Android structural pattern is recorded with source ANDROID and the level
\* of the Android block; under an IOS or WECHAT prior the Android block is
\* not evaluated and no record has source ANDROID.
C6_AndroidUnderAndroidOrUnknownPrior ==
    \A i \in EntryIndices :
        /\ (detectedSource \in {LogSource.ANDROID, LogSource.UNKNOWN} /\ AndroidPattern(entries[i].raw))
           => /\ entries[i].source = LogSource.ANDROID
              /\ entries[i].level = TagLetterSeverity(entries[i].raw)
        /\ detectedSource \in {LogSource.IOS, LogSource.WECHAT}
           => entries[i].source # LogSource.ANDROID

\* C6 witness: an UNKNOWN prior overridden by an Android line.
C6_Witness ==
    /\ detectedSource = LogSource.UNKNOWN
    /\ \E i \in EntryIndices :
          /\ AndroidPattern(entries[i].raw)
          /\ entries[i].source = LogSource.ANDROID
          /\ entries[i].level = LogLevel.WARNING

\* C7 as stated: under an ANDROID or UNKNOWN prior a line with an `X/tag:`
\* token gets source ANDROID, the level of the letter of that token, and
\* the MM-DD HH:MM:SS.mmm substring (else N/A) as timestamp.
C7_LevelOfOwnTagLetter ==
    \A i \in EntryIndices :
        (detectedSource \in {LogSource.ANDROID, LogSource.UNKNOWN} /\ AndroidTagRegex(entries[i].raw))
        => /\ entries[i].source = LogSource.ANDROID
           /\ entries[i].level = LetterSeverity(OwnTagLetter(entries[i].raw))
           /\ entries[i].timestamp = AndroidTimeOrNA(entries[i].raw)

\* C7 amended: under an ANDROID or UNKNOWN prior a line matching the
\* Android structural pattern gets source ANDROID; level ERROR when 'E/'
\* stands at the start of the line or after a blank anywhere in it, else
\* WARNING for 'W/', else DEBUG for 'D/', else INFO, whatever severity
\* words it holds; timestamp the first MM-DD HH:MM:SS.mmm substring, else N/A.
C7_LevelByTagLetterPrecedence ==
    \A i \in EntryIndices :
        (detectedSource \in {LogSource.ANDROID, LogSource.UNKNOWN} /\ AndroidPattern(entries[i].raw))
        => /\ entries[i].source = LogSource.ANDROID
           /\ entries[i].level = TagLetterSeverity(entries[i].raw)
           /\ entries[i].timestamp = AndroidTimeOrNA(entries[i].raw)

\* C7 witness: a logcat line with a time, whose own tag letter is I and
\* which is recorded ERROR for an 'E/' later in the line.
C7_Witness ==
    \E i \in EntryIndices :
        /\ AndroidTagRegex(entries[i].raw)
        /\ OwnTagLetter(entries[i].raw) = "I"
        /\ entries[i].source = LogSource.ANDROID
        /\ entries[i].level = LogLevel.ERROR
        /\ entries[i].timestamp = JStr(Chars("10-27 10:00:00.123"))

\* C8: under a WECHAT or UNKNOWN prior a line that is a parseable JSON
\* object gets source WECHAT, message its `message` field if present, else
\* its `msg` field, else the raw line, and timestamp its `time` field if
\* present, else its `timestamp` field, else N/A.
C8_JsonFieldsExtracted ==
    \A i \in EntryIndices :
        (/\ detectedSource \in {LogSource.WECHAT, LogSource.UNKNOWN}
         /\ BracePattern(entries[i].raw)
         /\ JSONparse(entries[i].raw).ok)
        => LET props == JSONparse(entries[i].raw).props
           IN /\ entries[i].source = LogSource.WECHAT
              /\ entries[i].message = FirstPresent(props, Chars("message"), Chars("msg"), JStr(entries[i].raw))
              /\ entries[i].timestamp = FirstPresent(props, Chars("time"), Chars("timestamp"), NotAvailable)

\* C9: the fallback step sets the level from the keywords of the whole raw
\* line (error, exception or fail; else warn; else debug; else INFO, letter
\* case ignored) exactly when the level is still UNKNOWN, and leaves a
\* level assigned by a structural step as it is.
C9_FallbackOnlyWhenUnknown ==
    [][pc = "fallback" =>
          /\ level = LogLevel.UNKNOWN => level' = KeywordSeverity(line)
          /\ level # LogLevel.UNKNOWN => level' = level]_vars

\* C9 witness: the fallback step has run on a line holding error, warn and
\* debug that no structural step classified.
C9_Witness ==
    /\ pc = "push"
    /\ NoStructuralPattern(line)
    /\ Mentions(line, Chars("warn"))
    /\ Mentions(line, Chars("debug"))
    /\ level = LogLevel.ERROR

HintSource(name) ==
    IF Mentions(name, Chars("ios")) \/ endsWith(name, Chars(".syslog")) THEN LogSource.IOS
    ELSE IF Mentions(name, Chars("logcat")) \/ Mentions(name, Chars("android")) THEN LogSource.ANDROID
    ELSE IF Mentions(name, Chars("wechat")) \/ Mentions(name, Chars("miniprogram")) THEN LogSource.WECHAT
    ELSE LogSource.UNKNOWN

\* C11: once computed, the file-level prior is the source the file-name
\* hint stands for with every keyword matched in any letter case: ios or
\* the .syslog extension give IOS, logcat or android ANDROID, wechat or
\* miniprogram WECHAT, and a hint with none of them (the empty hint
\* included) UNKNOWN.
C11_PriorIgnoresLetterCase ==
    pc # "start" => detectedSource = HintSource(fileName)

\* The indices of the non-blank lines, in line order.
RECURSIVE NonBlankIndices(_, _)
NonBlankIndices(ls, from) ==
    IF from >= Len(ls) THEN <<>>
    ELSE IF HasVisibleChar(ls[from + 1]) THEN <<from>> \o NonBlankIndices(ls, from + 1)
    ELSE NonBlankIndices(ls, from + 1)

\* C12: no record stands for a blank line; the index component of the
\* k-th record's id is the 0-based position of the k-th non-blank line in
\* the split document, blank lines counted; so the ids are pairwise
\* distinct and their index components strictly increase in output order.
C12_IdCarriesLineIndex ==
    /\ \A i \in EntryIndices :
          /\ entries[i].id.index \in 0..(Len(lines) - 1)
          /\ HasVisibleChar(lines[entries[i].id.index + 1])
    /\ pc = "done" => [i \in EntryIndices |-> entries[i].id.index] = NonBlankIndices(lines, 0)
    /\ \A i, j \in EntryIndices :
          i < j => /\ entries[i].id # entries[j].id
                   /\ entries[i].id.index < entries[j].id.index

\* C12 witness: two records around a blank line, with indices 0 and 2 and
\* the same time-and-random part of the id.
C12_Witness ==
    /\ pc = "done"
    /\ Len(lines) = 3
    /\ Len(entries) = 2
    /\ entries[1].id.index = 0
    /\ entries[2].id.index = 2
    /\ entries[1].id.salt = entries[2].id.salt

\* The record stands for a line the iOS step accepted.
IosAccepted(e) == e.source = LogSource.IOS /\ IosPattern(e.raw)

\* The severity of a line by the bare words error and warning and the
\* marker <debug>.
BareWordSeverity(ln) ==
    IF Mentions(ln, Chars("error")) THEN LogLevel.ERROR
    ELSE IF Mentions(ln, Chars("warning")) THEN LogLevel.WARNING
    ELSE IF Mentions(ln, Chars("<debug>")) THEN LogLevel.DEBUG
    ELSE LogLevel.INFO

\* The severity of a line by the syslog markers.
MarkerSeverity(ln) ==
    IF Mentions(ln, Chars("<error>")) \/ Mentions(ln, Chars(" error:")) THEN LogLevel.ERROR
    ELSE IF Mentions(ln, Chars("<warning>")) \/ Mentions(ln, Chars(" warning:")) THEN LogLevel.WARNING
    ELSE IF Mentions(ln, Chars("<debug>")) THEN LogLevel.DEBUG
    ELSE LogLevel.INFO

\* C17 as stated: a line accepted by the iOS step is recorded ERROR when it
\* contains 'error' in any letter case (the bare word, '<error>' or
\* 'error:'), otherwise WARNING when it contains 'warning', otherwise DEBUG
\* when it contains '<debug>', otherwise INFO.
C17_IosLevelByBareWord ==
    \A i \in EntryIndices :
        IosAccepted(entries[i]) => entries[i].level = BareWordSeverity(entries[i].raw)

\* C17 amended: a line accepted by the iOS step is recorded ERROR when it
\* contains '<error>' or ' error:' (a blank before the word) in any letter
\* case, otherwise WARNING when it contains '<warning>' or ' warning:',
\* otherwise DEBUG when it contains '<debug>', otherwise INFO; the bare
\* words error and warning alone leave it INFO.
C17_IosLevelByMarker ==
    \A i \in EntryIndices :
        IosAccepted(entries[i]) => entries[i].level = MarkerSeverity(entries[i].raw)

\* C17 witness: an accepted syslog line with the bare word error and no
\* marker, recorded INFO.
C17_Witness ==
    \E i \in EntryIndices :
        /\ IosAccepted(entries[i])
        /\ Mentions(entries[i].raw, Chars("error"))
        /\ MarkerSeverity(entries[i].raw) = LogLevel.INFO
        /\ entries[i].level = LogLevel.INFO

\* The month/day/time text a line starts with, or N/A.
IosPrefixOrNA(ln) ==
    IF IosMatchEnd(ln, 1) # 0 THEN JStr(SubSeq(ln, 1, IosMatchEnd(ln, 1))) ELSE NotAvailable

\* C18: the iOS step accepts a line only when the month/day/time pattern
\* is a prefix of it: a record with source IOS has that leading prefix as
\* timestamp, or N/A when the line does not start with the pattern, and
\* under an UNKNOWN prior a line that does not start with the pattern is
\* not recorded with source IOS.
C18_IosTimeIsLinePrefix ==
    \A i \in EntryIndices :
        /\ entries[i].source = LogSource.IOS => entries[i].timestamp = IosPrefixOrNA(entries[i].raw)
        /\ (detectedSource = LogSource.UNKNOWN /\ IosMatchEnd(entries[i].raw, 1) = 0)
           => entries[i].source # LogSource.IOS

\* The line starts with a bracketed tag whose name begins with the word.
LeadingTag(ln, word) ==
    /\ startsWith(ln, Chars("[") \o word)
    /\ \E j \in (Len(word) + 2)..Len(ln) : ln[j] = "]"

\* The severity of the bracketed tag a line starts with.
LeadingTagSeverity(ln) ==
    IF LeadingTag(ln, Chars("ERR")) THEN LogLevel.ERROR
    ELSE IF LeadingTag(ln, Chars("WARN")) THEN LogLevel.WARNING
    ELSE LogLevel.INFO

\* C19: under a WECHAT or UNKNOWN prior a line that starts with a
\* bracketed tag whose name begins with INFO, ERR or WARN is recorded with
\* source WECHAT, timestamp N/A and the level of that leading tag, whatever
\* other bracketed tags or severity words follow.
C19_LeadingBracketTag ==
    \A i \in EntryIndices :
        (/\ detectedSource \in {LogSource.WECHAT, LogSource.UNKNOWN}
         /\ \/ LeadingTag(entries[i].raw, Chars("INFO"))
            \/ LeadingTag(entries[i].raw, Chars("ERR"))
            \/ LeadingTag(entries[i].raw, Chars("WARN")))
        => /\ entries[i].source = LogSource.WECHAT
           /\ entries[i].timestamp = NotAvailable
           /\ entries[i].level = LeadingTagSeverity(entries[i].raw)

\* The record stands for a line the JSON branch parsed.
JsonParsed(e) == e.source = LogSource.WECHAT /\ BracePattern(e.raw) /\ JSONparse(e.raw).ok

\* The severity a `level` field value stands for: error, warn, or INFO for
\* everything else.
FieldSeverity(lvl) ==
    IF lvl.t = "string" /\ toLowerCase(lvl.s) = Chars("error") THEN LogLevel.ERROR
    ELSE IF lvl.t = "string" /\ toLowerCase(lvl.s) = Chars("warn") THEN LogLevel.WARNING
    ELSE LogLevel.INFO

\* C20 as stated: the level of a parsed JSON line comes from its `level`
\* field alone: error gives ERROR, warn gives WARNING, and everything else,
\* an absent field included, gives INFO.
C20_JsonLevelFromFieldAlone ==
    \A i \in EntryIndices :
        JsonParsed(entries[i])
        => entries[i].level = FieldSeverity(GetProp(JSONparse(entries[i].raw).props, Chars("level")))

\* C20 amended: when the `level` field of a parsed JSON line is a
\* non-empty text, error (in any letter case) gives ERROR, warn gives
\* WARNING and any other text INFO, whatever severity words the line holds;
\* when the field is absent, empty or not a text, the level is the one the
\* fallback keywords give the whole raw line.
C20_JsonLevelFromFieldOrFallback ==
    \A i \in EntryIndices :
        JsonParsed(entries[i])
        => LET lvl == GetProp(JSONparse(entries[i].raw).props, Chars("level"))
           IN entries[i].level = IF lvl.t = "string" /\ lvl.s # <<>>
                                 THEN FieldSeverity(lvl)
                                 ELSE KeywordSeverity(entries[i].raw)

\* C20 witness: a parsed JSON line with level info and the word error in
\* its message, recorded INFO.
C20_Witness ==
    \E i \in EntryIndices :
        /\ JsonParsed(entries[i])
        /\ GetProp(JSONparse(entries[i].raw).props, Chars("level")) = JStr(Chars("info"))
        /\ Mentions(entries[i].raw, Chars("error"))
        /\ entries[i].level = LogLevel.INFO

\* The fields of a record other than id and tag.
Content(e) ==
    [timestamp |-> e.timestamp, level |-> e.level, source |-> e.source, message |-> e.message, raw |-> e.raw]

\* C13: any two calls of parseLogFile that have returned, on the same
\* content and file name, whatever calls came between them, gave record
\* sequences of equal length that agree record by record in timestamp,
\* level, source, message and raw.
C13_SameInputsSameRecords ==
    \A a, b \in 1..Len(returned) :
        (returned[a].content = returned[b].content /\ returned[a].fileName = returned[b].fileName)
        => /\ Len(returned[a].entries) = Len(returned[b].entries)
           /\ \A k \in 1..Len(returned[a].entries) :
                 Content(returned[a].entries[k]) = Content(returned[b].entries[k])

\* C13 witness: the first and the third call had the same inputs, the
\* second another document and file name; the first and the third
\* returned two records each, under different ids.
C13_Witness ==
    /\ Len(returned) = 3
    /\ returned[1].content = returned[3].content
    /\ returned[1].fileName = returned[3].fileName
    /\ returned[2].content # returned[1].content
    /\ returned[2].fileName # returned[1].fileName
    /\ Len(returned[1].entries) = 2
    /\ returned[1].entries[1].id # returned[3].entries[1].id
    /\ returned[1].entries # returned[3].entries

\* The interface tokens stand in a message in order: a verb at p, white
\* space, a URL token, from its end on a status code of the closed set at
\* q, and after it a duration at d.
TokensInOrder(msg) ==
    \E v \in {Chars("GET"), Chars("POST"), Chars("PUT"), Chars("DELETE"), Chars("PATCH")} :
        \E p \in 1..(Len(msg) - Len(v)) :
            /\ toLowerCase(SubSeq(msg, p, p + Len(v) - 1)) = toLowerCase(v)
            /\ IsSpace(msg[p + Len(v)])
            /\ UrlEnd(msg, SpaceRunEnd(msg, p + Len(v))) > SpaceRunEnd(msg, p + Len(v))
            /\ \E q \in UrlEnd(msg, SpaceRunEnd(msg, p + Len(v)))..(Len(msg) - 2) :
                  /\ SubSeq(msg, q, q + 2) \in
                        {Chars("200"), Chars("201"), Chars("400"), Chars("401"), Chars("403"), Chars("404"),
                         Chars("500"), Chars("502")}
                  /\ \E d \in (q + 3)..Len(msg) :
                        /\ IsDigit(msg[d])
                        /\ startsWith(toLowerCase(SubSeq(msg, SpaceRunEnd(msg, DigitRunEnd(msg, d)), Len(msg))),
                                      Chars("ms"))

\* C14: extractInterfaceMetrics yields at most one InterfaceMetric per
\* record, and one for exactly the records whose message holds, in this
\* order, a verb of GET, POST, PUT, DELETE, PATCH, a URL token, a status
\* code of the closed set and a duration with ms suffix; the method is one
\* of the verbs, the status one of the set, and the url has no query string.
C14_InterfaceMetricPerMatchingRecord ==
    pc = "api" =>
        /\ \A m, n \in 1..Len(apiMetrics) : m < n => apiMetrics[m].id < apiMetrics[n].id
        /\ \A k \in EntryIndices :
              (\E m \in 1..Len(apiMetrics) : apiMetrics[m].id = k) <=> TokensInOrder(entries[k].message.s)
        /\ \A m \in 1..Len(apiMetrics) :
              /\ apiMetrics[m].id \in EntryIndices
              /\ apiMetrics[m].method \in {Chars("GET"), Chars("POST"), Chars("PUT"), Chars("DELETE"), Chars("PATCH")}
              /\ apiMetrics[m].status \in StatusCodes
              /\ apiMetrics[m].url # <<>>
              /\ \A j \in 1..Len(apiMetrics[m].url) : apiMetrics[m].url[j] # "?" /\ ~IsSpace(apiMetrics[m].url[j])
              /\ includes(entries[apiMetrics[m].id].message.s, apiMetrics[m].url)

\* C14 witness: 'GET /api/v1/user?x=1 status:200 took:45ms' gave the one
\* metric GET, /api/v1/user, 200, 45, and the record after it, with
\* status 999, gave none.
C14_Witness ==
    /\ pc = "api"
    /\ Len(entries) = 2
    /\ entries[2].message = JStr(Chars("GET /api/v1/user status:999 took:45ms"))
    /\ Len(apiMetrics) = 1
    /\ apiMetrics[1].id = 1
    /\ apiMetrics[1].method = Chars("GET")
    /\ apiMetrics[1].url = Chars("/api/v1/user")
    /\ apiMetrics[1].status = Chars("200")
    /\ apiMetrics[1].duration = 45

\* The characters of a message that are digits.
DigitPositions(msg) == {i \in 1..Len(msg) : IsDigit(msg[i])}

\* A message whose only number is one memory figure: all its digits lie in
\* one number, which white space at most separates from KB, MB or MiB.
OnlyMemoryFigure(msg) ==
    /\ DigitPositions(msg) # {}
    /\ LET i == CHOOSE a \in DigitPositions(msg) : \A b \in DigitPositions(msg) : a <= b
       IN /\ \A b \in DigitPositions(msg) : b < NumberTokenEnd(msg, i)
          /\ \E u \in {Chars("KB"), Chars("MB"), Chars("MiB")} :
                startsWith(SubSeq(msg, SpaceRunEnd(msg, NumberTokenEnd(msg, i)), Len(msg)), u)

\* The magnitude in MB, in hundredths, of the memory figure of such a message.
MegabytesOf(msg) ==
    LET i == CHOOSE a \in DigitPositions(msg) : \A b \in DigitPositions(msg) : a <= b
        n == NumberOf(SubSeq(msg, i, NumberTokenEnd(msg, i) - 1))
        u == SubSeq(msg, SpaceRunEnd(msg, NumberTokenEnd(msg, i)), Len(msg))
    IN IF startsWith(u, Chars("KB")) THEN (200 * n.num + 1024 * n.den) \div (2048 * n.den)
       ELSE (200 * n.num + n.den) \div (2 * n.den)

\* C15: every memory sample of extractPerformanceMetrics has unit MB; and
\* when every record's message either has no digit or has one memory
\* figure as its only number, the samples are, in record order, one memory
\* sample per record with a figure, whose value is the figure divided by
\* 1024 when written in KB and the figure itself when written in MB or MiB.
C15_MemoryInMegabytes ==
    pc \in {"perf", "api"} =>
        /\ \A m \in 1..Len(sysMetrics) : sysMetrics[m].type = "memory" => sysMetrics[m].unit = "MB"
        /\ (\A k \in EntryIndices :
               DigitPositions(entries[k].message.s) = {} \/ OnlyMemoryFigure(entries[k].message.s))
           => LET figures == SelectSeq(entries, LAMBDA e : DigitPositions(e.message.s) # {})
              IN sysMetrics = [k \in 1..Len(figures) |->
                                  [timestamp |-> figures[k].timestamp, type |-> "memory",
                                   value |-> MegabytesOf(figures[k].message.s), unit |-> "MB"]]

\* C15 witness: 'used 2048KB' gave one memory sample of 2.00 MB and
\* 'heap 512MB' after it one of 512.00 MB.
C15_Witness ==
    /\ pc = "perf"
    /\ Len(entries) = 2
    /\ entries[1].message = JStr(Chars("used 2048KB"))
    /\ Len(sysMetrics) = 2
    /\ sysMetrics[1] = [timestamp |-> NotAvailable, type |-> "memory", value |-> 200, unit |-> "MB"]
    /\ sysMetrics[2].value = 51200

\* A reader of comma-separated values: fields are separated by commas and
\* records by line feeds; a field that starts with a double quote runs to
\* its closing quote, a doubled quote inside it standing for one quote, and
\* must be followed by a comma, a line feed or the end of the text.
QuoteCount(s, a, b) == Cardinality({k \in a..b : s[k] = "\""})

\* The closing quote of the quoted field opened at i, or 0.
ClosingQuote(s, i) ==
    LET closing == {j \in (i + 1)..Len(s) :
                       s[j] = "\"" /\ QuoteCount(s, i + 1, j) % 2 = 1 /\ (j = Len(s) \/ s[j + 1] # "\"")}
    IN IF closing = {} THEN 0 ELSE CHOOSE j \in closing : \A k \in closing : j <= k

\* The body of a quoted field with each doubled quote read as one quote.
Unquote(b) ==
    LET keep == SelectSeq([k \in 1..Len(b) |-> k], LAMBDA k : b[k] # "\"" \/ QuoteCount(b, 1, k) % 2 = 1)
    IN [n \in 1..Len(keep) |-> b[keep[n]]]

\* The position after the unquoted field that starts at i.
BareEnd(s, i) ==
    CHOOSE e \in i..(Len(s) + 1) :
        (\A j \in i..(e - 1) : s[j] \notin {",", "\n"}) /\ (e = Len(s) + 1 \/ s[e] \in {",", "\n"})

CsvMalformed == [ok |-> FALSE, records |-> <<>>]

\* CsvRead reads the field that starts at i, CsvAfterField what follows a
\* field that ended before k; rec holds the fields of the current record
\* and recs the records read so far.
RECURSIVE CsvRead(_, _, _, _), CsvAfterField(_, _, _, _)
CsvRead(s, i, rec, recs) ==
    IF i > Len(s)
    THEN [ok |-> TRUE, records |-> IF rec = <<>> THEN recs ELSE Append(recs, Append(rec, <<>>))]
    ELSE IF s[i] = "\""
         THEN IF ClosingQuote(s, i) = 0 THEN CsvMalformed
              ELSE CsvAfterField(s, ClosingQuote(s, i) + 1,
                                 Append(rec, Unquote(SubSeq(s, i + 1, ClosingQuote(s, i) - 1))), recs)
         ELSE IF QuoteCount(s, i, BareEnd(s, i) - 1) # 0 THEN CsvMalformed
              ELSE CsvAfterField(s, BareEnd(s, i), Append(rec, SubSeq(s, i, BareEnd(s, i) - 1)), recs)
CsvAfterField(s, k, rec, recs) ==
    IF k > Len(s) THEN [ok |-> TRUE, records |-> Append(recs, rec)]
    ELSE IF s[k] = "," THEN CsvRead(s, k + 1, rec, recs)
    ELSE IF s[k] = "\n" THEN CsvRead(s, k + 1, <<>>, Append(recs, rec))
    ELSE CsvMalformed

\* The four fields of a record as texts.
CsvFields(e) == <<TemplateText(e.timestamp), Chars(e.source), Chars(e.level), TemplateText(e.message)>>

\* C16: the CSV export is a well-formed text of comma-separated values
\* whose records are the header and then, for every log record, exactly
\* its four fields timestamp, source, level and message, whatever commas
\* and double quotes they hold.
C16_CsvRowsHaveFourFields ==
    download.format = "csv" =>
        /\ ~download.thrown
        /\ CsvRead(download.content, 1, <<>>, <<>>) =
              [ok |-> TRUE,
               records |-> <<<<Chars("Timestamp"), Chars("Source"), Chars("Level"), Chars("Message")>>>>
                              \o [k \in EntryIndices |-> CsvFields(entries[k])]]

\* The gates of the iOS step and of the mini-program step on the locals.
IosGate == source = LogSource.IOS \/ (source = LogSource.UNKNOWN /\ timestamp = JStr(<<>>))
WechatGate == source = LogSource.WECHAT \/ (source = LogSource.UNKNOWN /\ timestamp = JStr(<<>>))

\* An earlier structural group has assigned to the locals of this line:
\* the Android and the iOS group both end by assigning a concrete level.
AssignedEarlier == Locals # InitLocals(line, detectedSource)

\* C21: the iOS step changes the locals only when the current source is
\* IOS, or UNKNOWN with no timestamp, and the mini-program step only when
\* it is WECHAT, or UNKNOWN with no timestamp; a step that follows a group
\* which assigned to the locals leaves them alone, so at most one of the
\* three groups assigns per line; and under an ANDROID prior no record
\* pushed has source IOS or WECHAT.
C21_OneStructuralGroupPerLine ==
    [][/\ pc = "ios" /\ (~IosGate \/ AssignedEarlier) => Locals' = Locals
       /\ pc = "wechat" /\ (~WechatGate \/ AssignedEarlier) => Locals' = Locals
       /\ detectedSource = LogSource.ANDROID
          => \A i \in 1..Len(entries') : entries'[i].source \notin {LogSource.IOS, LogSource.WECHAT}]_vars

\* C21 witness: a line with the Android pattern and the iOS time pattern
\* was classified by the Android group under an UNKNOWN prior, the iOS and
\* the mini-program step have been passed, and the iOS time is not taken.
C21_Witness ==
    /\ pc = "push"
    /\ detectedSource = LogSource.UNKNOWN
    /\ AndroidPattern(line)
    /\ IosPattern(line)
    /\ source = LogSource.ANDROID
    /\ timestamp = JStr(<<>>)

\* The record the four blocks give the line of index idx, classified on
\* its own under the file-level prior.
RecordOfLine(idx) == MakeEntry(lines[idx + 1], idx, 0, Classify(lines[idx + 1], detectedSource))

\* C22: the record the sequential pass has just pushed agrees, in every
\* field except the id, with the record its line gets when it is
\* classified on its own under the file-level prior, whatever lines came
\* before it; and the records of the lines classified one by one in any
\* order and merged by line index are the sequence the pass returns.
C22_RecordDependsOnLineAndPrior ==
    /\ (pc = "loop" /\ entries # <<>>)
       => Content(entries[Len(entries)]) = Content(RecordOfLine(entries[Len(entries)].id.index))
    /\ pc = "done"
       => [i \in EntryIndices |-> Content(entries[i])]
          = [i \in 1..Len(NonBlankIndices(lines, 0)) |-> Content(RecordOfLine(NonBlankIndices(lines, 0)[i]))]

\* C22 witness: a line that the fallback step gives WARNING was recorded
\* right after an Android line recorded ERROR with source Android, under
\* an UNKNOWN prior.
C22_Witness ==
    /\ detectedSource = LogSource.UNKNOWN
    /\ Len(entries) >= 2
    /\ entries[1].level = LogLevel.ERROR
    /\ entries[1].source = LogSource.ANDROID
    /\ entries[2].level = LogLevel.WARNING
    /\ entries[2].source = LogSource.UNKNOWN
    /\ entries[2].timestamp = NotAvailable

\* C29: under an UNKNOWN prior every record of a line that starts with an
\* opening and ends with a closing brace, and has neither the Android
\* pattern nor the iOS time pattern, has source WECHAT, whether JSON.parse
\* accepts the line or not.
C29_BraceLineIsWechat ==
    detectedSource = LogSource.UNKNOWN
    => \A i \in EntryIndices :
           (BracePattern(entries[i].raw) /\ ~AndroidPattern(entries[i].raw) /\ ~IosPattern(entries[i].raw))
           => entries[i].source = LogSource.WECHAT

\* C29 witness: a brace-delimited line that JSON.parse rejects was
\* recorded under an UNKNOWN prior with source WECHAT, its raw text as
\* message and no timestamp.
C29_Witness ==
    /\ detectedSource = LogSource.UNKNOWN
    /\ \E i \in EntryIndices :
          /\ BracePattern(entries[i].raw)
          /\ ~JSONparse(entries[i].raw).ok
          /\ entries[i].source = LogSource.WECHAT
          /\ entries[i].message = JStr(entries[i].raw)
          /\ entries[i].timestamp = NotAvailable

\* The keywords of each platform as lines 12-16 look for them in a hint.
IosKeyword(name) == Mentions(name, Chars("ios")) \/ includes(name, Chars(".syslog"))
AndroidKeyword(name) == Mentions(name, Chars("android")) \/ includes(name, Chars("logcat"))
WechatKeyword(name) == Mentions(name, Chars("wechat")) \/ includes(name, Chars("miniprogram"))

\* C30: once computed, the prior is IOS for every hint with an iOS
\* keyword, whatever other keywords it holds, ANDROID for a hint with an
\* Android keyword and no iOS keyword, and WECHAT for a hint with a
\* mini-program keyword only; the letters i, o, s in a row, in any letter
\* case and anywhere in the hint, are an iOS keyword.
C30_PriorPrecedence ==
    pc # "start"
    => /\ (\E k \in 1..(Len(fileName) - 2) :
              toLowerCase(SubSeq(fileName, k, k + 2)) = Chars("ios")) => detectedSource = LogSource.IOS
       /\ IF IosKeyword(fileName) THEN detectedSource = LogSource.IOS
          ELSE IF AndroidKeyword(fileName) THEN detectedSource = LogSource.ANDROID
          ELSE WechatKeyword(fileName) => detectedSource = LogSource.WECHAT

\* C30 witness: the hint android_bios.log, which holds android and the
\* letters ios inside bios, has given the prior IOS.
C30_Witness ==
    /\ pc # "start"
    /\ fileName = Chars("android_bios.log")
    /\ AndroidKeyword(fileName)
    /\ detectedSource = LogSource.IOS

\* C23: a step of the component changes logs only when it is the onload
\* callback of a pending file read, which stores the records of that
\* file; searching, filtering, selecting or closing a row, exporting, the
\* AI handlers and their callbacks, the screenshot upload and the
\* performance report leave the record sequence as it is.
C23_OnlyFileLoadChangesLogs ==
    [][app'.logs # app.logs
       => \E i \in 1..Len(requests) :
              /\ Pending(i, "readAsText")
              /\ requests' = Without(i)
              /\ app'.logs = parseLogFile(requests[i].of[1], requests[i].of[2], 0)]_vars

\* C23 witness: with the records of the two-line file loaded, a row was
\* selected, analysed and answered and the list was searched, and the
\* records are those of the file.
C23_Witness ==
    /\ Len(app.logs) = 2
    /\ app.logs = parseLogFile(Chars("GET /api/v1/user status:200 took:45ms\n{\"level\":\"warn\",\"msg\":\"m\"}"),
                               <<>>, 0)
    /\ app.selectedLog = app.logs[2]
    /\ app.aiAnalysis # NoText
    /\ app.searchTerm = Chars("WARN")
    /\ filteredLogs(app).list = <<app.logs[2]>>

\* The records of the state a that contain the search term in message or
\* raw, letter case ignored, and pass the source and the level filter.
Displayed(a) ==
    SelectSeq(a.logs, LAMBDA log : /\ Mentions(log.message.s, toLowerCase(a.searchTerm))
                                      \/ Mentions(log.raw, toLowerCase(a.searchTerm))
                                   /\ a.filterSource \in {"ALL", log.source}
                                   /\ a.filterLevel \in {"ALL", log.level})

\* C24: in every state the component is in, filteredLogs is computed and
\* is the subsequence of logs of the records that contain the search term
\* in message or raw, letter case ignored, and pass both filters; it is
\* logs itself when the term is empty and both filters are ALL.
C24_FilteredLogsIsTheMatchingSubsequence ==
    /\ ~filteredLogs(app).thrown
    /\ filteredLogs(app).list = Displayed(app)
    /\ (app.searchTerm = <<>> /\ app.filterSource = "ALL" /\ app.filterLevel = "ALL")
       => filteredLogs(app).list = app.logs

\* C25: when handleGeneratePerformance asks for a report, the interface
\* metrics it hands to analyzePerformance, which the report stored later
\* is computed from, are the interface metrics held in state after the
\* handler's own updates.
C25_ReportOnDisplayedMetrics ==
    [][handleGeneratePerformance => requests'[Len(requests')].of = app'.interfaceMetrics]_vars

\* C26: whenever a row is selected and aiAnalysis is not empty, the text
\* is the answer to the analysis of the selected record.
C26_AnalysisOfSelectedRecord ==
    (app.selectedLog # JNull /\ app.aiAnalysis # NoText)
    => app.aiAnalysis = analyzeLogEntry(app.selectedLog, AnalysisContext(app, app.selectedLog))

\* The AI requests in flight: every pending request but the read of a log
\* file; the read of a screenshot is the first part of its extraction.
AiRequestsInFlight == {i \in 1..Len(requests) : requests[i].kind # "readAsText"}

\* C27: analyzing is true whenever an AI request is in flight, and once
\* no AI request is in flight analyzing becomes false.
C27_AnalyzingFollowsRequests ==
    /\ [](Alive /\ AiRequestsInFlight # {} => app.analyzing)
    /\ (AiRequestsInFlight = {}) ~> (~app.analyzing \/ ~Alive)

\* C28: the onload callback of a file read stores the records of the file
\* and clears selectedLog, showSummary and showPerformance, and leaves
\* perfMetrics, interfaceMetrics and perfReport as they are; and
\* handleGeneratePerformance leaves interfaceMetrics as it is when the
\* records yield no interface metric.
C28_FileLoadKeepsMetrics ==
    [][/\ FileLoaded
          => /\ \E file \in AppFiles : app'.logs = parseLogFile(file[1], file[2], 0)
             /\ app'.selectedLog = JNull
             /\ ~app'.showSummary
             /\ ~app'.showPerformance
             /\ app'.perfMetrics = app.perfMetrics
             /\ app'.interfaceMetrics = app.interfaceMetrics
             /\ app'.perfReport = app.perfReport
       /\ (handleGeneratePerformance /\ extractInterfaceMetrics(app.logs) = <<>>)
          => app'.interfaceMetrics = app.interfaceMetrics]_vars

\* C28 witness: the interface metrics of a screenshot are held while the
\* records of the Android file, which yield no interface metric, are
\* loaded, and handleGeneratePerformance has asked for a report on them.
C28_Witness ==
    /\ app.build = "part_000"
    /\ app.logs = parseLogFile(Chars("E/T: Failed"), Chars("android.log"), 0)
    /\ apiMetrics = <<>>
    /\ app.interfaceMetrics \in ScreenshotMetrics
    /\ \E i \in 1..Len(requests) :
          Pending(i, "analyzePerformance") /\ requests[i].of = app.interfaceMetrics

====
